---- MODULE Spec2Model ----
(***************************************************************************)
(* Model of the GRC compliance platform's seeder / upsert engine           *)
(* (src/seed.py), the source deletion of src/utils/db.py and the import    *)
(* wizard of the Admin page.                                               *)
(*                                                                         *)
(* Text is modelled as sequences of one-character strings so that          *)
(* clean_text and split_list_string are computed, not assumed.  A cell of  *)
(* a data frame is a record [k, s]: k = "none" (None / NaN / ""),          *)
(* k = "str" (a string s) or k = "list" (a list-valued cell with two or    *)
(* more entries, for which pd.isna returns an array and clean_text         *)
(* raises ValueError).                                                     *)
(***************************************************************************)
EXTENDS Integers, Sequences, FiniteSets, TLC

VARIABLES
    db,        \* the persisted (committed) store: NoDb or a record of tables
    nextId,    \* number of uuid4 values drawn so far (the next fresh uuid)
    runs,      \* number of seed_from_dataframes calls so far
    last,      \* the last completed operation: its inputs, how it ended and
               \* the store it started from (pre)
    del,       \* delete_compliance_source in progress: pc and connection view
    ss,        \* the Admin page's st.session_state (import wizard keys)
    wz,        \* the last script run of the Admin page: the stage it started
               \* in, the user's event, what it invoked, how the seeding
               \* ended and the store before it
    ad,        \* a source adapter instance: its source, its recorded
               \* validation report, the ZIP adapter's temporary directory
               \* and the outcome of the last validate() / load() call
    mp,        \* the mappings of one control on its way from the adapter
               \* into the controls table and back: the frame cell, the
               \* stored text and what reading it back gives
    fv,        \* a call of DataValidator.full_validation: the two frames
               \* and what the call returned or raised
    cl,        \* a call of one of the adapters' structure helpers (header
               \* row, sheet roles, column mapping, adapter choice): its
               \* inputs and what it returned
    tx         \* two seed_from_dataframes runs on one database file, each
               \* on its own connection: their positions and transactions

vars == <<db, nextId, runs, last, del, ss, wz, ad, mp, fv, cl, tx>>

\* ---------------------------------------------------------------------
\* Bounds of the model
\* ---------------------------------------------------------------------
MaxRuns == 2

\* ---------------------------------------------------------------------
\* Text cells
\* ---------------------------------------------------------------------
None == [k |-> "none", s |-> <<>>]

Str(s) == [k |-> "str", s |-> s]

ListCell == [k |-> "list", s |-> <<>>]

NBSP == "nbsp"

ZWSP == "zwsp"

Whitespace == {" ", "\n", "\t"}

Delimiters == {"\n", "\r", ",", ";", "|"}

\* the elements of s at the positions in keep, in order
Pick(s, keep) ==
    IF keep = 1..Len(s) THEN s
    ELSE [j \in 1..Cardinality(keep) |->
            s[CHOOSE i \in keep : Cardinality({k \in keep : k < i}) = j - 1]]

\* s.replace(ZWSP, '')
DropZwsp(s) == Pick(s, {i \in 1..Len(s) : s[i] # ZWSP})

\* s.replace('\r\n', '\n'): the "\r" of each pair goes
JoinCrLf(s) ==
    Pick(s, {i \in 1..Len(s) : ~(s[i] = "\r" /\ i < Len(s) /\ s[i + 1] = "\n")})

\* s.replace(NBSP, ' ') and s.replace('\r', '\n'), character by character
ReplaceChars(s) ==
    [i \in 1..Len(s) |-> IF s[i] = NBSP THEN " " ELSE IF s[i] = "\r" THEN "\n" ELSE s[i]]

\* the replace calls of clean_text one after the other: NBSP and the
\* other special spaces become a space, ZWSP goes, "\r\n" and "\r"
\* become "\n"
ReplaceSpecial(s) == ReplaceChars(JoinCrLf(DropZwsp(s)))

RECURSIVE LStrip(_)
LStrip(s) ==
    IF s # <<>> /\ Head(s) \in Whitespace THEN LStrip(Tail(s)) ELSE s

RECURSIVE RStrip(_)
RStrip(s) ==
    IF s # <<>> /\ s[Len(s)] \in Whitespace
    THEN RStrip(SubSeq(s, 1, Len(s) - 1))
    ELSE s

Strip(s) == RStrip(LStrip(s))

\* clean_text raises (ValueError: truth value of an array is ambiguous)
CleanRaises(val) == val.k = "list"

clean_text(val) ==
    IF val.k # "str" \/ val.s = <<>> THEN None
    ELSE LET s == Strip(ReplaceSpecial(val.s))
         IN  IF s = <<>> THEN None ELSE Str(s)

RECURSIVE SplitRec(_, _, _)
SplitRec(s, cur, out) ==
    IF s = <<>> THEN Append(out, cur)
    ELSE IF Head(s) \in Delimiters
         THEN SplitRec(Tail(s), <<>>, Append(out, cur))
         ELSE SplitRec(Tail(s), Append(cur, Head(s)), out)

RECURSIVE StripAll(_)
StripAll(parts) ==
    IF parts = <<>> THEN <<>>
    ELSE LET x == Strip(Head(parts))
         IN  IF x = <<>> THEN StripAll(Tail(parts))
             ELSE <<x>> \o StripAll(Tail(parts))

\* the list of reference strings of a raw string s
split_list_string(s) ==
    IF s = <<>> \/ Strip(s) = <<>> THEN <<>>
    ELSE LET c == clean_text(Str(s))
         IN  IF c = None THEN <<>> ELSE StripAll(SplitRec(c.s, <<>>, <<>>))

\* ---------------------------------------------------------------------
\* The relational store (create_schema)
\* ---------------------------------------------------------------------
SOURCE_COLORS ==
    << "#667eea", "#f093fb", "#4facfe", "#43e97b", "#fa709a",
       "#a8edea", "#fed6e3", "#d299c2", "#fef9d7", "#d4fc79" >>

\* no database file at db_name
NoDb ==
    [exists |-> FALSE, schema |-> FALSE, seq |-> 0,
     compliance_sources |-> {}, domains |-> {}, evidence |-> {},
     controls |-> {}, control_evidence |-> <<>>, import_history |-> <<>>]

\* the file sqlite3.connect creates when none exists: no tables
BlankDb == [NoDb EXCEPT !.exists = TRUE]

\* the store right after create_schema: all six tables, all empty
EmptyStore == [NoDb EXCEPT !.exists = TRUE, !.schema = TRUE]

\* create_schema(db_name, force_recreate): the store it leaves
create_schema(d, force_recreate) ==
    IF ~force_recreate /\ d.exists THEN d ELSE EmptyStore

\* SELECT id FROM compliance_sources WHERE name = ?
SourceByName(d, name) == {s \in d.compliance_sources : s.name = name}

\* variant: the color follows the new row's id instead of the row count
get_or_create_by_ordinal(d, name) ==
    IF SourceByName(d, name) # {}
    THEN [db |-> d, id |-> (CHOOSE s \in SourceByName(d, name) : TRUE).id]
    ELSE [db |-> [d EXCEPT
                    !.seq = d.seq + 1,
                    !.compliance_sources = @ \cup
                        {[id |-> d.seq + 1, name |-> name,
                          color |-> SOURCE_COLORS[(d.seq % Len(SOURCE_COLORS)) + 1],
                          control_count |-> 0, evidence_count |-> 0]}],
          id |-> d.seq + 1]

\* get_or_create_compliance_source, no color given; it commits the insert
get_or_create_compliance_source(d, name) ==
    IF SourceByName(d, name) # {}
    THEN [db |-> d, id |-> (CHOOSE s \in SourceByName(d, name) : TRUE).id]
    ELSE LET count == Cardinality(d.compliance_sources)
             color == SOURCE_COLORS[(count % Len(SOURCE_COLORS)) + 1]
             id    == d.seq + 1
         IN  [db |-> [d EXCEPT
                        !.seq = id,
                        !.compliance_sources = @ \cup
                            {[id |-> id, name |-> name, color |-> color,
                              control_count |-> 0, evidence_count |-> 0]}],
              id |-> id]

ControlsOf(d, sid) == {c \in d.controls : c.source_id = sid}

EvidenceOf(d, sid) == {e \in d.evidence : e.source_id = sid}

DomainsOf(d, sid) == {x \in d.domains : x.source_id = sid}

\* update_compliance_source_counts: recount and store
update_compliance_source_counts(d, sid) ==
    [d EXCEPT !.compliance_sources =
        {IF s.id = sid
         THEN [s EXCEPT !.control_count = Cardinality(ControlsOf(d, sid)),
                        !.evidence_count = Cardinality(EvidenceOf(d, sid))]
         ELSE s : s \in @}]

\* ---------------------------------------------------------------------
\* seed_from_dataframes: the evidence pass
\* ---------------------------------------------------------------------
\* variant: a row without a key is not skipped
SkipRowNever(key) == FALSE

\* `if not ref_id: continue` / `if not ccf_id: continue`
SkipRow(key) == key = None

\* variant: the existence check finds nothing, every row is inserted
ExistingEvidenceNever(w, sid, ref) == {}

\* SELECT id FROM evidence WHERE source_id = ? AND ref_id = ?
ExistingEvidence(w, sid, ref) ==
    {e \in w.evidence : e.source_id = sid /\ e.ref_id = ref}

\* one iteration of the evidence loop on the connection's view st.w;
\* st.n is the next fresh uuid, st.raised says an exception left the loop
EvidenceRow(st, sid, row) ==
    IF st.raised THEN st
    ELSE IF CleanRaises(row.ref_id) THEN [st EXCEPT !.raised = TRUE]
    ELSE LET ref_id == clean_text(row.ref_id)
             existing == ExistingEvidence(st.w, sid, ref_id)
         IN
         IF SkipRow(ref_id) THEN st
         ELSE IF CleanRaises(row.title) \/ CleanRaises(row.domain)
              THEN [st EXCEPT !.raised = TRUE]
         ELSE IF existing # {}
              THEN LET ev_id == (CHOOSE e \in existing : TRUE).id
                   IN  [st EXCEPT
                          !.w.evidence =
                              {IF e.id = ev_id
                               THEN [e EXCEPT !.title = clean_text(row.title),
                                              !.domain = clean_text(row.domain)]
                               ELSE e : e \in @},
                          !.evidence_imported = @ + 1]
              ELSE [st EXCEPT
                      !.w.evidence = @ \cup
                          {[id |-> st.n, source_id |-> sid, ref_id |-> ref_id,
                            title |-> clean_text(row.title),
                            domain |-> clean_text(row.domain)]},
                      !.n = @ + 1,
                      !.evidence_imported = @ + 1]

RECURSIVE EvidencePass(_, _, _, _)
EvidencePass(st, sid, evidence_df, i) ==
    IF i > Len(evidence_df) THEN st
    ELSE EvidencePass(EvidenceRow(st, sid, evidence_df[i]), sid, evidence_df, i + 1)

\* variant: the lookup is read without the WHERE clause
BuildLookupAll(w, sid) == {<<e.ref_id, e.id>> : e \in w.evidence}

\* evidence_lookup = {ref_id: id} over the evidence rows of this source
BuildLookup(w, sid) == {<<e.ref_id, e.id>> : e \in EvidenceOf(w, sid)}

\* evidence_lookup.get(ref): the set of ids found (empty when absent)
LookupGet(lookup, ref) == {p[2] : p \in {q \in lookup : q[1] = Str(ref)}}

\* ---------------------------------------------------------------------
\* seed_from_dataframes: the controls pass
\* ---------------------------------------------------------------------
\* domain_id = None
NULL_ID == 0

\* SELECT id FROM domains WHERE source_id = ? AND name = ?
ExistingDomain(w, sid, name) ==
    {x \in w.domains : x.source_id = sid /\ x.name = name}

\* the domain block of the controls loop: cache, then select, then insert
ResolveDomain(st, sid, domain_name) ==
    IF domain_name = None THEN [st |-> st, domain_id |-> NULL_ID]
    ELSE IF \E p \in st.cache : p[1] = domain_name
         THEN [st |-> st,
               domain_id |-> (CHOOSE p \in st.cache : p[1] = domain_name)[2]]
    ELSE IF ExistingDomain(st.w, sid, domain_name) # {}
         THEN LET id == (CHOOSE x \in ExistingDomain(st.w, sid, domain_name) : TRUE).id
              IN  [st |-> [st EXCEPT !.cache = @ \cup {<<domain_name, id>>}],
                   domain_id |-> id]
    ELSE [st |-> [st EXCEPT
                    !.w.domains = @ \cup
                        {[id |-> st.n, source_id |-> sid, name |-> domain_name]},
                    !.n = @ + 1,
                    !.domains_created = @ + 1,
                    !.cache = @ \cup {<<domain_name, st.n>>}],
          domain_id |-> st.n]

\* variant: the existence check leaves the source out (WHERE ccf_id = ?)
ExistingControlAnySource(w, sid, ccf_id) == {c \in w.controls : c.ccf_id = ccf_id}

\* SELECT id FROM controls WHERE source_id = ? AND ccf_id = ?
ExistingControl(w, sid, ccf_id) ==
    {c \in w.controls : c.source_id = sid /\ c.ccf_id = ccf_id}

\* variant: the old links of an updated control are kept (merge)
DeleteLinksKeep(links, ctrl_id) == links

\* DELETE FROM control_evidence WHERE control_id = ?
DeleteLinks(links, ctrl_id) ==
    SelectSeq(links, LAMBDA l : l.control_id # ctrl_id)

\* variant: a plain INSERT into a table without the primary key
InsertLink(links, ctrl_id, ev_id) ==
    Append(links, [control_id |-> ctrl_id, evidence_id |-> ev_id])

\* INSERT OR IGNORE INTO control_evidence (control_id, evidence_id)
InsertOrIgnore(links, ctrl_id, ev_id) ==
    IF \E i \in 1..Len(links) :
          links[i].control_id = ctrl_id /\ links[i].evidence_id = ev_id
    THEN links
    ELSE Append(links, [control_id |-> ctrl_id, evidence_id |-> ev_id])

\* refs = split_list_string(str(artifacts)) when artifacts is truthy and
\* not NaN; str() of a list-valued cell holds no bare reference
ArtifactRefs(artifacts) ==
    IF artifacts.k = "str" /\ artifacts.s # <<>>
    THEN split_list_string(artifacts.s)
    ELSE <<>>

RECURSIVE LinkEvidence(_, _, _, _, _)
LinkEvidence(st, ctrl_id, lookup, refs, i) ==
    IF i > Len(refs) THEN st
    ELSE LET hit == LookupGet(lookup, refs[i])
         IN  LinkEvidence(
                 IF hit # {}
                 THEN [st EXCEPT
                         !.w.control_evidence =
                             InsertOrIgnore(@, ctrl_id, CHOOSE x \in hit : TRUE),
                         !.evidence_links = @ + 1]
                 ELSE st,
                 ctrl_id, lookup, refs, i + 1)

\* variant: an existing control is left as it is (first occurrence wins)
UpsertControlKeepFirst(st, sid, lookup, row, ccf_id, domain_id) ==
    LET existing == {c \in st.w.controls : c.source_id = sid /\ c.ccf_id = ccf_id}
    IN  IF existing # {}
        THEN [st EXCEPT !.controls_imported = @ + 1]
        ELSE LinkEvidence(
                 [st EXCEPT
                    !.w.controls = @ \cup
                        {[id |-> st.n, source_id |-> sid, ccf_id |-> ccf_id,
                          domain_id |-> domain_id,
                          title |-> clean_text(row.title)]},
                    !.n = @ + 1,
                    !.controls_imported = @ + 1],
                 st.n, lookup, ArtifactRefs(row.artifacts), 1)

\* the upsert of one control and its links, domain already resolved
UpsertControl(st, sid, lookup, row, ccf_id, domain_id) ==
    LET existing == ExistingControl(st.w, sid, ccf_id)
        ctrl_id == IF existing # {} THEN (CHOOSE c \in existing : TRUE).id ELSE st.n
        st1 ==
            IF existing # {}
            THEN [st EXCEPT
                    !.w.control_evidence = DeleteLinks(@, ctrl_id),
                    !.w.controls =
                        {IF c.id = ctrl_id
                         THEN [c EXCEPT !.domain_id = domain_id,
                                        !.title = clean_text(row.title)]
                         ELSE c : c \in @},
                    !.controls_imported = @ + 1]
            ELSE [st EXCEPT
                    !.w.controls = @ \cup
                        {[id |-> ctrl_id, source_id |-> sid, ccf_id |-> ccf_id,
                          domain_id |-> domain_id,
                          title |-> clean_text(row.title)]},
                    !.n = @ + 1,
                    !.controls_imported = @ + 1]
    IN  LinkEvidence(st1, ctrl_id, lookup, ArtifactRefs(row.artifacts), 1)

\* one iteration of the controls loop
ControlRow(st, sid, lookup, row) ==
    IF st.raised THEN st
    ELSE IF CleanRaises(row.ccf_id) THEN [st EXCEPT !.raised = TRUE]
    ELSE LET ccf_id == clean_text(row.ccf_id)
         IN
         IF SkipRow(ccf_id) THEN st
         ELSE IF CleanRaises(row.domain) THEN [st EXCEPT !.raised = TRUE]
         ELSE LET dom == ResolveDomain(st, sid, clean_text(row.domain))
              IN  IF CleanRaises(row.title)
                  THEN [dom.st EXCEPT !.raised = TRUE]
                  ELSE UpsertControl(dom.st, sid, lookup, row, ccf_id, dom.domain_id)

RECURSIVE ControlsPass(_, _, _, _, _)
ControlsPass(st, sid, lookup, controls_df, i) ==
    IF i > Len(controls_df) THEN st
    ELSE ControlsPass(ControlRow(st, sid, lookup, controls_df[i]),
                      sid, lookup, controls_df, i + 1)

\* ---------------------------------------------------------------------
\* seed_from_dataframes as a whole
\* ---------------------------------------------------------------------
\* `df is None or df.empty`: a missing frame and a frame without rows take
\* the same branch; both are the empty sequence here
FrameEmpty(df) == Len(df) = 0

\* INSERT INTO import_history (...)
RecordHistory(w, id, sid, st) ==
    [w EXCEPT !.import_history =
        Append(@, [id |-> id, source_id |-> sid,
                   controls_imported |-> st.controls_imported,
                   evidence_imported |-> st.evidence_imported,
                   domains_created |-> st.domains_created])]

\* the loop state at the start of a run on the connection view w
StartState(w, n) ==
    [w |-> w, n |-> n, raised |-> FALSE, cache |-> {},
     evidence_imported |-> 0, controls_imported |-> 0,
     domains_created |-> 0, evidence_links |-> 0]

\* The store seed_from_dataframes leaves COMMITTED, the uuids it drew and
\* how it ended: "ok" (ran to the end), "early" (returned at `No controls
\* to import`) or "raised".  get_db closes the connection without commit,
\* so whatever was written after the last conn.commit() is rolled back.
seed_from_dataframes(d, n, source_name, controls_df, evidence_df) ==
    IF ~d.schema
    THEN \* no such table: compliance_sources (the file now exists)
         [db |-> [d EXCEPT !.exists = TRUE], n |-> n, result |-> "raised", sid |-> NULL_ID]
    ELSE
    LET src == get_or_create_compliance_source(d, source_name)
        sid == src.id
        st0 == StartState(src.db, n)
        ev  == IF FrameEmpty(evidence_df) THEN st0
               ELSE EvidencePass(st0, sid, evidence_df, 1)
        evidence_lookup ==
               IF FrameEmpty(evidence_df) THEN {} ELSE BuildLookup(ev.w, sid)
        ct  == ControlsPass(ev, sid, evidence_lookup, controls_df, 1)
        counted == update_compliance_source_counts(ct.w, sid)
    IN
    IF ev.raised
    THEN [db |-> src.db, n |-> ev.n, result |-> "raised", sid |-> sid]
    ELSE IF FrameEmpty(controls_df)
    THEN [db |-> ev.w, n |-> ev.n, result |-> "early", sid |-> sid]
    ELSE IF ct.raised
    THEN [db |-> ev.w, n |-> ct.n, result |-> "raised", sid |-> sid]
    ELSE [db |-> RecordHistory(counted, ct.n, sid, ct), n |-> ct.n + 1,
          result |-> "ok", sid |-> sid]

\* ---------------------------------------------------------------------
\* delete_compliance_source (src/utils/db.py), statement by statement on
\* one connection; foreign_keys = ON, so ON DELETE CASCADE is in force
\* ---------------------------------------------------------------------
\* DELETE FROM control_evidence WHERE control_id IN (controls of the source)
DeleteSourceLinks(w, sid) ==
    [w EXCEPT !.control_evidence =
        SelectSeq(@, LAMBDA l :
            ~\E c \in ControlsOf(w, sid) : c.id = l.control_id)]

\* DELETE FROM controls WHERE source_id = ?  (cascades to control_evidence)
DeleteSourceControls(w, sid) ==
    [w EXCEPT !.controls = @ \ ControlsOf(w, sid),
              !.control_evidence =
                  SelectSeq(@, LAMBDA l :
                      ~\E c \in ControlsOf(w, sid) : c.id = l.control_id)]

\* variant: the WHERE clause is missing, the evidence of every source goes
DeleteAllEvidence(w, sid) ==
    [w EXCEPT !.evidence = {}, !.control_evidence = <<>>]

\* DELETE FROM evidence WHERE source_id = ?  (cascades to control_evidence)
DeleteSourceEvidence(w, sid) ==
    [w EXCEPT !.evidence = @ \ EvidenceOf(w, sid),
              !.control_evidence =
                  SelectSeq(@, LAMBDA l :
                      ~\E e \in EvidenceOf(w, sid) : e.id = l.evidence_id)]

\* DELETE FROM domains WHERE source_id = ?
DeleteSourceDomains(w, sid) == [w EXCEPT !.domains = @ \ DomainsOf(w, sid)]

\* DELETE FROM import_history WHERE source_id = ?
DeleteSourceHistory(w, sid) ==
    [w EXCEPT !.import_history = SelectSeq(@, LAMBDA h : h.source_id # sid)]

\* DELETE FROM compliance_sources WHERE id = ?
DeleteSourceRow(w, sid) ==
    [w EXCEPT !.compliance_sources = {s \in @ : s.id # sid}]

\* the statements in program order
DeleteOrder == <<"links", "controls", "evidence", "domains", "history", "source">>

DeleteStatement(stmt, w, sid) ==
    CASE stmt = "links"    -> DeleteSourceLinks(w, sid)
      [] stmt = "controls" -> DeleteSourceControls(w, sid)
      [] stmt = "evidence" -> DeleteSourceEvidence(w, sid)
      [] stmt = "domains"  -> DeleteSourceDomains(w, sid)
      [] stmt = "history"  -> DeleteSourceHistory(w, sid)
      [] stmt = "source"   -> DeleteSourceRow(w, sid)

\* ---------------------------------------------------------------------
\* Inputs
\* ---------------------------------------------------------------------
SourceNames == {"Adobe CCF", "SCF 2024"}

\* control rows: key "c"; key "c" again behind a no-break space, other
\* scalars and a twice-cited reference; a key that cleans to null; key "k"
\* citing three references; a row whose title is a list-valued cell
RowC == [ccf_id |-> Str(<<"c">>), domain |-> Str(<<"d">>),
         title |-> Str(<<"t">>), artifacts |-> Str(<<"e">>)]

RowC2 == [ccf_id |-> Str(<<NBSP, "c", " ">>), domain |-> None,
          title |-> Str(<<"u">>), artifacts |-> Str(<<"f", ";", " ", "f">>)]

RowNull == [ccf_id |-> Str(<<" ", ZWSP>>), domain |-> Str(<<"g">>),
            title |-> Str(<<"t">>), artifacts |-> Str(<<"e">>)]

RowK == [ccf_id |-> Str(<<"k">>), domain |-> Str(<<"d", " ">>),
         title |-> Str(<<"t">>), artifacts |-> Str(<<"e", ",", "f", "\n", "x">>)]

RowBad == [ccf_id |-> Str(<<"k">>), domain |-> Str(<<"d">>),
           title |-> ListCell, artifacts |-> None]

ControlRows == {RowC, RowC2, RowNull, RowK, RowBad}

\* evidence rows: "e"; "f" behind a space; a key that cleans to null; "e"
\* with another title; a row whose title is a list-valued cell
EvE == [ref_id |-> Str(<<"e">>), title |-> Str(<<"t">>), domain |-> None]

EvF == [ref_id |-> Str(<<" ", "f">>), title |-> Str(<<"u">>), domain |-> Str(<<"d">>)]

EvNull == [ref_id |-> Str(<<NBSP>>), title |-> Str(<<"t">>), domain |-> None]

EvE2 == [ref_id |-> Str(<<"e">>), title |-> Str(<<"u">>), domain |-> None]

EvBad == [ref_id |-> Str(<<"e">>), title |-> ListCell, domain |-> None]

EvidenceRows == {EvE, EvF, EvNull, EvE2, EvBad}

ControlFrames ==
    { <<>>, <<RowC>>, <<RowC, RowC2>>, <<RowNull, RowK>>, <<RowK, RowC>>,
      <<RowC2, RowBad>> }

EvidenceFrames ==
    { <<>>, <<EvE, EvF>>, <<EvNull, EvE2>>, <<EvF, EvBad>> }

\* ---------------------------------------------------------------------
\* The Admin page's session state.  A key that is absent reads "absent"
\* (import_stage, validation_result, source_name), set = FALSE (frames,
\* temp_path) or FALSE (the two option flags, read with a False default).
\* ---------------------------------------------------------------------
NoFrame == [set |-> FALSE, df |-> <<>>]

NewSession ==
    [import_stage |-> "absent", temp_path |-> FALSE,
     controls_df |-> NoFrame, evidence_df |-> NoFrame,
     validation_result |-> "absent", source_name |-> "absent",
     force_recreate |-> FALSE, validate_only |-> FALSE]

NoRun ==
    [from |-> "none", event |-> "none", valid |-> "none",
     created |-> FALSE, seeded |-> FALSE, result |-> "none", pre |-> NoDb,
     chosen |-> FALSE]

\* no adapter has been constructed
NoAdapter == [kind |-> "none"]

\* no control's mappings are followed
NoMappings == [pc |-> "none"]

\* full_validation has not been called
NoValidation == [pc |-> "none"]

\* no helper call yet
NoCall == [pc |-> "none"]

\* no concurrent runs
NoTx == [pc |-> "none"]

\* ---------------------------------------------------------------------
\* The state machine of the store
\* ---------------------------------------------------------------------
Idle == [pc |-> 0, sid |-> NULL_ID, conn |-> NoDb]

NoOp ==
    [op |-> "none", name |-> "", controls_df |-> <<>>, evidence_df |-> <<>>,
     result |-> "none", sid |-> NULL_ID, repeat |-> FALSE, pre |-> NoDb,
     force_recreate |-> FALSE, validate_only |-> FALSE,
     validation |-> "none", success |-> FALSE, errors |-> <<>>,
     propagated |-> FALSE]

Init ==
    /\ db = EmptyStore
    /\ nextId = 1
    /\ runs = 0
    /\ last = NoOp
    /\ del = Idle
    /\ ss = NewSession
    /\ wz = NoRun
    /\ ad = NoAdapter
    /\ mp = NoMappings
    /\ fv = NoValidation
    /\ cl = NoCall
    /\ tx = NoTx

\* one call of seed_from_dataframes
Seed(name, controls_df, evidence_df) ==
    LET r == seed_from_dataframes(db, nextId, name, controls_df, evidence_df)
    IN  /\ del.pc = 0
        /\ runs < MaxRuns
        /\ db' = r.db
        /\ nextId' = r.n
        /\ runs' = runs + 1
        /\ last' = [NoOp EXCEPT
                      !.op = "seed", !.name = name, !.controls_df = controls_df,
                      !.evidence_df = evidence_df, !.result = r.result,
                      !.sid = r.sid,
                      !.repeat = /\ last.op = "seed"
                                 /\ last.name = name
                                 /\ last.controls_df = controls_df
                                 /\ last.evidence_df = evidence_df,
                      !.pre = db]
        /\ UNCHANGED <<del, ss, wz, ad, mp, fv, cl, tx>>

\* delete_compliance_source(source_id) opens its connection
DeleteBegin(sid) ==
    /\ del.pc = 0
    /\ del' = [pc |-> 1, sid |-> sid, conn |-> db]
    /\ UNCHANGED <<db, nextId, runs, last, ss, wz, ad, mp, fv, cl, tx>>

\* the next DELETE statement of delete_compliance_source
DeleteStep ==
    /\ del.pc \in 1..Len(DeleteOrder)
    /\ del' = [del EXCEPT !.pc = @ + 1,
                          !.conn = DeleteStatement(DeleteOrder[del.pc], @, del.sid)]
    /\ UNCHANGED <<db, nextId, runs, last, ss, wz, ad, mp, fv, cl, tx>>

\* conn.commit(); return True
DeleteCommit ==
    /\ del.pc = Len(DeleteOrder) + 1
    /\ db' = del.conn
    /\ del' = Idle
    /\ last' = [NoOp EXCEPT !.op = "delete", !.result = "ok", !.sid = del.sid,
                            !.pre = db]
    /\ UNCHANGED <<nextId, runs, ss, wz, ad, mp, fv, cl, tx>>

Next ==
    \/ \E name \in SourceNames, c \in ControlFrames, e \in EvidenceFrames :
          Seed(name, c, e)
    \/ \E s \in {x.id : x \in db.compliance_sources} : DeleteBegin(s)
    \/ DeleteStep
    \/ DeleteCommit

Spec == Init /\ [][Next]_vars

\* ---------------------------------------------------------------------
\* run_seed: schema creation, adapter, validation, load, seeding.  The
\* adapter is the environment here: what get_adapter / validate / load do
\* with the source is the input `outcome`, the frames load() returns are
\* controls_df and evidence_df, and data_valid is full_validation's flag.
\* ---------------------------------------------------------------------
AdapterOutcomes == {"no_adapter", "invalid", "load_raises", "loaded"}

\* the store after the first block of run_seed's try
RunSeedSchema(d, force_recreate, validate_only) ==
    IF ~validate_only /\ (force_recreate \/ ~d.exists)
    THEN create_schema(d, force_recreate)
    ELSE d

\* a return of run_seed with success = False before seeding
RunSeedFail(store, uuid, validation, errs) ==
    [db |-> store, n |-> uuid, success |-> FALSE, validation |-> validation,
     errors |-> errs, seeded |-> "none", sid |-> NULL_ID, propagated |-> FALSE]

\* the exceptions adapter.load() raises inside run_seed: no natural-id
\* column, a file that went away after validate(), a failed extraction
LoadExceptions == {"ValueError", "FileNotFoundError", "OSError"}

\* variant: run_seed without its `except Exception` clause
ExceptClausesNamed == <<"FileNotFoundError", "ValueError">>

\* the except clauses of run_seed, in order
ExceptClauses == <<"FileNotFoundError", "ValueError", "Exception">>

\* isinstance(exc, clause) for the exception classes above
IsA(exc, clause) == clause = exc \/ clause = "Exception"

\* what the clause appends to result['errors']
ClauseError(clause) ==
    IF clause = "Exception" THEN <<"Unexpected error: str(e)">> ELSE <<"str(e)">>

\* the try body raised exc: the first clause that matches appends its
\* error and run_seed returns the result; with no match exc leaves run_seed
RunSeedExcept(store, uuid, validation, exc) ==
    LET matching == SelectSeq(ExceptClauses, LAMBDA clause : IsA(exc, clause))
    IN  IF matching # <<>>
        THEN RunSeedFail(store, uuid, validation, ClauseError(matching[1]))
        ELSE [RunSeedFail(store, uuid, validation, <<>>) EXCEPT
                !.propagated = TRUE]

\* the result dict after the seed_from_dataframes call r: success, or the
\* except clause for what the call raised
RunSeedSeeded(r) ==
    IF r.result = "raised"
    THEN [RunSeedExcept(r.db, r.n, "valid", "ValueError") EXCEPT
            !.seeded = r.result, !.sid = r.sid]
    ELSE [db |-> r.db, n |-> r.n, success |-> TRUE, validation |-> "valid",
          errors |-> <<>>, seeded |-> r.result, sid |-> r.sid,
          propagated |-> FALSE]

\* run_seed: the store it leaves, the uuids drawn and the result dict
run_seed(d, n, force_recreate, validate_only, outcome, exc, name, controls_df, evidence_df, data_valid) ==
    LET d1 == RunSeedSchema(d, force_recreate, validate_only)
    IN
    IF outcome = "no_adapter"
    THEN RunSeedExcept(d1, n, "none", "ValueError")
    ELSE IF outcome = "invalid"
    THEN RunSeedFail(d1, n, "invalid", <<"validation error">>)
    ELSE IF outcome = "load_raises"
    THEN RunSeedExcept(d1, n, "valid", exc)
    ELSE IF FrameEmpty(controls_df)
    THEN RunSeedFail(d1, n, "valid", <<"No controls found in source">>)
    ELSE IF validate_only
    THEN [db |-> d1, n |-> n, success |-> TRUE, validation |-> "valid",
          errors |-> <<>>, seeded |-> "none", sid |-> NULL_ID,
          propagated |-> FALSE]
    ELSE IF ~data_valid
    THEN RunSeedFail(d1, n, "valid", <<"Data validation failed with critical errors">>)
    ELSE RunSeedSeeded(seed_from_dataframes(d1, n, name, controls_df, evidence_df))

\* the state after a run_seed call that returned r
RunSeedDone(r, force_recreate, validate_only, name, controls_df, evidence_df) ==
    /\ db' = r.db
    /\ nextId' = r.n
    /\ runs' = runs + 1
    /\ last' = [NoOp EXCEPT
                  !.op = "run_seed", !.name = name,
                  !.controls_df = controls_df, !.evidence_df = evidence_df,
                  !.result = r.seeded, !.sid = r.sid, !.pre = db,
                  !.force_recreate = force_recreate,
                  !.validate_only = validate_only,
                  !.validation = r.validation, !.success = r.success,
                  !.errors = r.errors, !.propagated = r.propagated]
    /\ UNCHANGED <<del, ss, wz, ad, mp, fv, cl, tx>>

\* one call of run_seed
RunSeed(force_recreate, validate_only, outcome, exc, name, controls_df, evidence_df, data_valid) ==
    /\ runs < MaxRuns
    /\ RunSeedDone(run_seed(db, nextId, force_recreate, validate_only, outcome,
                            exc, name, controls_df, evidence_df, data_valid),
                   force_recreate, validate_only, name, controls_df, evidence_df)

\* no store exists before the first run_seed
InitRun ==
    /\ db = NoDb
    /\ nextId = 1
    /\ runs = 0
    /\ last = NoOp
    /\ del = Idle
    /\ ss = NewSession
    /\ wz = NoRun
    /\ ad = NoAdapter
    /\ mp = NoMappings
    /\ fv = NoValidation
    /\ cl = NoCall
    /\ tx = NoTx

NextRun ==
    \E force_recreate \in BOOLEAN, validate_only \in BOOLEAN,
       outcome \in AdapterOutcomes, exc \in LoadExceptions,
       name \in SourceNames,
       c \in ControlFrames, e \in EvidenceFrames, data_valid \in BOOLEAN :
        /\ outcome # "loaded" => (c = <<>> /\ e = <<>> /\ data_valid)
        /\ outcome # "load_raises" => exc = "ValueError"
        /\ RunSeed(force_recreate, validate_only, outcome, exc, name, c, e, data_valid)

SpecRun == InitRun /\ [][NextRun]_vars

\* ---------------------------------------------------------------------
\* The import wizard of the Admin page: one action is one whole script
\* run of main() with the user's event of that run.  The adapter is the
\* environment, as for run_seed.
\* ---------------------------------------------------------------------
\* cleanup_temp_files: the listed keys are deleted, the others stay
cleanup_temp_files(s) ==
    [s EXCEPT !.import_stage = "absent", !.temp_path = FALSE,
              !.controls_df = NoFrame, !.evidence_df = NoFrame,
              !.validation_result = "absent", !.source_name = "absent"]

\* `if 'import_stage' not in st.session_state: ... = 'upload'`
InitSession(s) ==
    IF s.import_stage = "absent" THEN [s EXCEPT !.import_stage = "upload"] ELSE s

\* clean_dataframe raises on a list-valued cell (pd.notna gives an array)
FrameRaises(df) ==
    \E i \in 1..Len(df) : \E f \in DOMAIN df[i] : CleanRaises(df[i][f])

\* clean_dataframe: clean_text on every cell
clean_dataframe(df) ==
    [i \in 1..Len(df) |-> [f \in DOMAIN df[i] |-> clean_text(df[i][f])]]

\* the result of a script run that writes nothing to the store
NoWrite(s, d, n, valid) ==
    [ss |-> s, db |-> d, n |-> n, valid |-> valid,
     created |-> FALSE, seeded |-> FALSE, result |-> "none"]

\* stage 'upload': file uploader, option checkboxes, the two entry buttons
StageUpload(s, d, n, event, name, force_recreate, validate_only, path_ok) ==
    LET filled == [s EXCEPT !.temp_path = TRUE, !.source_name = name,
                            !.force_recreate = force_recreate,
                            !.validate_only = validate_only]
    IN
    IF event = "upload_file" THEN NoWrite(filled, d, n, "none")
    ELSE IF event = "validate_click"
    THEN NoWrite([filled EXCEPT !.import_stage = "validate"], d, n, "none")
    ELSE IF event = "import_from_path" /\ path_ok
    THEN NoWrite([s EXCEPT !.temp_path = TRUE, !.source_name = name,
                           !.import_stage = "validate"], d, n, "none")
    ELSE NoWrite(s, d, n, "none")

\* validation passed and the frames were loaded and cleaned in this run
LoadedInRun(outcome, controls_df, evidence_df) ==
    /\ outcome = "loaded"
    /\ ~FrameRaises(controls_df) /\ ~FrameRaises(evidence_df)

\* variant: the 'Confirm Import' button is rendered on every path
ConfirmRenderedAlways(loaded, validate_only) == TRUE

\* the 'Confirm Import' button is rendered (and so can return True) only
\* below `if validation['valid']`, after load, in the else of validate_only
ConfirmRendered(loaded, validate_only) == loaded /\ ~validate_only

\* what the script run learned about the source: validation['valid']
ValidationSeen(outcome) ==
    CASE outcome = "no_adapter" -> "none"
      [] outcome = "invalid" -> "invalid"
      [] OTHER -> "valid"

\* stage 'validate': get_adapter, validate, load, preview, buttons
StageValidate(s, d, n, event, path_ok, outcome, controls_df, evidence_df) ==
    LET validated == [s EXCEPT !.validation_result =
                                  IF outcome = "invalid" THEN "invalid" ELSE "valid"]
        loaded == [validated EXCEPT
                     !.controls_df = [set |-> TRUE, df |-> clean_dataframe(controls_df)],
                     !.evidence_df = [set |-> TRUE, df |-> clean_dataframe(evidence_df)]]
        isLoaded == LoadedInRun(outcome, controls_df, evidence_df)
    IN
    IF event = "start_over_top" THEN NoWrite(cleanup_temp_files(s), d, n, "none")
    ELSE IF ~(s.temp_path /\ path_ok)
    THEN NoWrite([s EXCEPT !.import_stage = "upload"], d, n, "none")
    ELSE IF event = "confirm" /\ ConfirmRendered(isLoaded, s.validate_only)
    THEN NoWrite([(IF isLoaded THEN loaded ELSE s) EXCEPT !.import_stage = "import"],
                 d, n, ValidationSeen(outcome))
    ELSE IF outcome = "no_adapter"
    THEN NoWrite(IF event = "start_over" THEN cleanup_temp_files(s) ELSE s,
                 d, n, "none")
    ELSE IF outcome = "invalid"
    THEN NoWrite(IF event = "go_back"
                 THEN [validated EXCEPT !.import_stage = "upload"]
                 ELSE validated, d, n, "invalid")
    ELSE IF ~isLoaded
    THEN NoWrite(IF event = "start_over" THEN cleanup_temp_files(validated)
                 ELSE validated, d, n, "valid")
    ELSE IF s.validate_only
    THEN NoWrite(IF event = "start_over" THEN cleanup_temp_files(loaded)
                 ELSE loaded, d, n, "valid")
    ELSE IF event = "cancel"
    THEN NoWrite(cleanup_temp_files(loaded), d, n, "valid")
    ELSE NoWrite(loaded, d, n, "valid")

\* st.session_state.get('source_name', 'Unknown Framework')
SessionSourceName(s) ==
    IF s.source_name = "absent" THEN "Unknown Framework" ELSE s.source_name

\* stage 'import' after seed_from_dataframes returned or raised (r): on
\* success 'done' is set and cleanup_temp_files runs; the except branch
\* offers 'Start Over'
ImportFinished(s, event, r) ==
    [ss |-> IF r.result = "raised"
            THEN (IF event = "start_over" THEN cleanup_temp_files(s) ELSE s)
            ELSE cleanup_temp_files([s EXCEPT !.import_stage = "done"]),
     db |-> r.db, n |-> r.n, valid |-> "none",
     created |-> s.force_recreate, seeded |-> TRUE, result |-> r.result]

\* stage 'import': create_schema when force_recreate, seed_from_dataframes
StageImport(s, d, n, event) ==
    IF event = "start_over_top" THEN NoWrite(cleanup_temp_files(s), d, n, "none")
    ELSE IF ~s.controls_df.set
    THEN NoWrite([s EXCEPT !.import_stage = "upload"], d, n, "none")
    ELSE ImportFinished(s, event,
             seed_from_dataframes(
                 IF s.force_recreate THEN create_schema(d, TRUE) ELSE d,
                 n, SessionSourceName(s), s.controls_df.df, s.evidence_df.df))

\* stage 'done': 'Import Another File'
StageDone(s, d, n, event) ==
    NoWrite(IF event \in {"import_another", "start_over_top"}
            THEN cleanup_temp_files(s) ELSE s, d, n, "none")

\* 'Reset Session State' of the Settings tab: every key is deleted
ResetSessionState(s) == NewSession

\* what the stage of this script run does
StageRun(s0, event, name, force_recreate, validate_only, path_ok, outcome, controls_df, evidence_df) ==
    CASE s0.import_stage = "upload" ->
             StageUpload(s0, db, nextId, event, name, force_recreate,
                         validate_only, path_ok)
      [] s0.import_stage = "validate" ->
             StageValidate(s0, db, nextId, event, path_ok, outcome,
                           controls_df, evidence_df)
      [] s0.import_stage = "import" -> StageImport(s0, db, nextId, event)
      [] s0.import_stage = "done" -> StageDone(s0, db, nextId, event)

\* what the user ticked in the 'Force Recreate Database' checkbox for the
\* import this script run belongs to: the checkbox is rendered, and read,
\* only in stage 'upload' below an uploaded file; a new import begins with
\* the run that finds no stage in the session state (a fresh or reset
\* session, or cleanup_temp_files at the end of the run before)
ChosenForce(from, event, r) ==
    IF from = "upload" /\ event \in {"upload_file", "validate_click"}
        THEN r.ss.force_recreate
    ELSE IF ss.import_stage = "absent" THEN FALSE
    ELSE wz.chosen

\* the state after a script run that started in stage `from` and did r
ScriptRunDone(from, event, r) ==
    /\ r.seeded => runs < MaxRuns
    /\ ss' = IF event = "reset_session" THEN ResetSessionState(r.ss) ELSE r.ss
    /\ db' = r.db
    /\ nextId' = r.n
    /\ runs' = IF r.seeded THEN runs + 1 ELSE runs
    /\ wz' = [from |-> from, event |-> event, valid |-> r.valid,
              created |-> r.created, seeded |-> r.seeded,
              result |-> r.result, pre |-> db,
              chosen |-> ChosenForce(from, event, r)]
    /\ UNCHANGED <<last, del, ad, mp, fv, cl, tx>>

\* one script run of main()
WizardRun(event, name, force_recreate, validate_only, path_ok, outcome, controls_df, evidence_df) ==
    ScriptRunDone(InitSession(ss).import_stage, event,
                  StageRun(InitSession(ss), event, name, force_recreate,
                           validate_only, path_ok, outcome, controls_df,
                           evidence_df))

\* a fresh session and no store yet
InitWizard ==
    /\ db = NoDb
    /\ nextId = 1
    /\ runs = 0
    /\ last = NoOp
    /\ del = Idle
    /\ ss = NewSession
    /\ wz = NoRun
    /\ ad = NoAdapter
    /\ mp = NoMappings
    /\ fv = NoValidation
    /\ cl = NoCall
    /\ tx = NoTx

\* the events a script run starting in a stage can carry
EventsAt(stage) ==
    CASE stage = "upload" ->
             {"none", "upload_file", "validate_click", "import_from_path",
              "reset_session"}
      [] stage = "validate" ->
             {"none", "start_over_top", "start_over", "go_back", "confirm",
              "cancel", "reset_session"}
      [] stage = "import" -> {"none", "start_over_top", "start_over", "reset_session"}
      [] stage = "done" -> {"none", "import_another", "start_over_top"}

\* the frames the adapter hands the wizard
WizardControlFrames == { <<>>, <<RowC>>, <<RowC2, RowBad>> }

WizardEvidenceFrames == { <<EvE, EvF>> }

\* a script run whose stage reads none of the inputs but the event
RunPlain(event) ==
    WizardRun(event, "Adobe CCF", FALSE, FALSE, TRUE, "loaded", <<>>, <<>>)

\* inputs a stage does not read are held at one value
NextWizard ==
    LET stage == InitSession(ss).import_stage
    IN  \/ /\ stage = "upload"
           /\ \E event \in {"upload_file", "validate_click"}, name \in SourceNames,
                 force_recreate \in BOOLEAN, validate_only \in BOOLEAN :
                  WizardRun(event, name, force_recreate, validate_only, TRUE,
                            "loaded", <<>>, <<>>)
        \/ /\ stage = "upload"
           /\ \E name \in SourceNames, path_ok \in BOOLEAN :
                  WizardRun("import_from_path", name, FALSE, FALSE, path_ok,
                            "loaded", <<>>, <<>>)
        \/ /\ stage = "validate"
           /\ \E event \in EventsAt(stage) \ {"start_over_top"},
                 outcome \in AdapterOutcomes,
                 c \in WizardControlFrames, e \in WizardEvidenceFrames :
                  /\ outcome # "loaded" => (c = <<>> /\ e = <<EvE, EvF>>)
                  /\ WizardRun(event, "Adobe CCF", FALSE, FALSE, TRUE, outcome, c, e)
        \/ /\ stage = "validate"
           /\ WizardRun("none", "Adobe CCF", FALSE, FALSE, FALSE, "loaded", <<>>, <<>>)
        \/ /\ stage # "validate"
           /\ \E event \in EventsAt(stage) \ {"upload_file", "validate_click",
                                                 "import_from_path"} :
                  RunPlain(event)
        \/ /\ stage = "validate"
           /\ RunPlain("start_over_top")

SpecWizard == InitWizard /\ [][NextWizard]_vars

\* ---------------------------------------------------------------------
\* Source adapters (src/utils/adapters.py).  A source is described by what
\* the adapter's checks find in it: whether the path exists, whether the
\* file parses, whether the main sheet / controls file / root container is
\* found (main), whether a column resolves to the natural id (has_id) and,
\* for a ZIP archive, the member names.  Member names are sequences of
\* characters; "__MACOSX" stands for that prefix as one element.
\* ---------------------------------------------------------------------
MaxCalls == 3

XLSX == <<".", "x", "l", "s", "x">>

XLS == <<".", "x", "l", "s">>

JSON == <<".", "j", "s", "o", "n">>

CSV == <<".", "c", "s", "v">>

XML == <<".", "x", "m", "l">>

\* str.lower() on the characters member names are built from
LowerChar(c) ==
    CASE c = "A" -> "a" [] c = "B" -> "b" [] c = "C" -> "c" [] c = "D" -> "d"
      [] c = "E" -> "e" [] c = "F" -> "f" [] c = "G" -> "g" [] c = "H" -> "h"
      [] c = "I" -> "i" [] c = "J" -> "j" [] c = "K" -> "k" [] c = "L" -> "l"
      [] c = "M" -> "m" [] c = "N" -> "n" [] c = "O" -> "o" [] c = "P" -> "p"
      [] c = "Q" -> "q" [] c = "R" -> "r" [] c = "S" -> "s" [] c = "T" -> "t"
      [] c = "U" -> "u" [] c = "V" -> "v" [] c = "W" -> "w" [] c = "X" -> "x"
      [] c = "Y" -> "y" [] c = "Z" -> "z"
      [] OTHER -> c

Lower(p) == [i \in 1..Len(p) |-> LowerChar(p[i])]

StartsWith(p, prefix) ==
    Len(p) >= Len(prefix) /\ SubSeq(p, 1, Len(prefix)) = prefix

EndsWith(p, suffix) ==
    Len(p) >= Len(suffix)
    /\ SubSeq(p, Len(p) - Len(suffix) + 1, Len(p)) = suffix

\* '..' in member
ContainsDotDot(p) == \E i \in 1..(Len(p) - 1) : p[i] = "." /\ p[i + 1] = "."

\* variant: validate() does not look at the member names
UnsafeMemberNever(member) == FALSE

\* `'..' in member or member.startswith('/')`
UnsafeMember(member) == ContainsDotDot(member) \/ StartsWith(member, <<"/">>)

\* the path components of a member name
RECURSIVE PathParts(_, _, _)
PathParts(p, cur, out) ==
    IF p = <<>> THEN Append(out, cur)
    ELSE IF Head(p) = "/" THEN PathParts(Tail(p), <<>>, Append(out, cur))
    ELSE PathParts(Tail(p), Append(cur, Head(p)), out)

\* os.path.abspath(os.path.join(base, target)) relative to base: the depth
\* below base after each component, or -1 once the path has left base
RECURSIVE Descend(_, _)
Descend(parts, depth) ==
    IF parts = <<>> \/ depth < 0 THEN depth
    ELSE IF Head(parts) \in {<<>>, <<".">>} THEN Descend(Tail(parts), depth)
    ELSE IF Head(parts) = <<".", ".">> THEN Descend(Tail(parts), depth - 1)
    ELSE Descend(Tail(parts), depth + 1)

\* _is_safe_path(base, member): an absolute member replaces base in
\* os.path.join; a relative one is safe when it resolves inside base (the
\* base is a fresh mkdtemp name, which a member cannot re-enter by name)
IsSafePath(member) ==
    /\ ~StartsWith(member, <<"/">>)
    /\ Descend(PathParts(member, <<>>, <<>>), 0) >= 0

\* the members with one of the extensions, outside __MACOSX, in order
FilesWith(members, exts) ==
    SelectSeq(members, LAMBDA f :
        /\ \E e \in exts : EndsWith(Lower(f), e)
        /\ ~StartsWith(f, <<"__MACOSX">>))

\* a file directly in the extraction directory (os.listdir of the folder)
TopLevel(member) == \A i \in 1..Len(member) : member[i] # "/"

\* self._validation_report = None
NoReport == [set |-> FALSE, valid |-> FALSE, errors |-> <<>>]

\* a report as validate() returns it; recorded says whether validate()
\* reached `self._validation_report = report` before returning
Report(valid, errors, recorded) ==
    [valid |-> valid, errors |-> errors, recorded |-> recorded,
     adapter_type |-> "none", primary |-> <<>>]

\* ExcelAdapter.validate
ValidateExcel(src) ==
    IF ~src.exists THEN Report(FALSE, <<"File not found">>, FALSE)
    ELSE IF ~src.readable THEN Report(FALSE, <<"Failed to read Excel file">>, TRUE)
    ELSE IF ~src.main
    THEN Report(FALSE, <<"Could not determine main controls sheet">>, TRUE)
    ELSE Report(TRUE, <<>>, TRUE)

\* JSONAdapter.validate
ValidateJson(src) ==
    IF ~src.exists THEN Report(FALSE, <<"File not found">>, FALSE)
    ELSE IF ~src.readable THEN Report(FALSE, <<"Invalid JSON">>, TRUE)
    ELSE IF ~src.main
    THEN Report(FALSE, <<"JSON root must be a list or object">>, TRUE)
    ELSE Report(TRUE, <<>>, TRUE)

\* CSVFolderAdapter.validate: a preview that cannot be read is skipped
ValidateCsv(src) ==
    IF ~src.exists THEN Report(FALSE, <<"Folder not found">>, FALSE)
    ELSE IF ~src.main THEN Report(FALSE, <<"Could not find controls CSV file">>, TRUE)
    ELSE Report(TRUE, <<>>, TRUE)

\* XMLAdapter.validate
ValidateXml(src) ==
    IF ~src.exists THEN Report(FALSE, <<"File not found">>, FALSE)
    ELSE IF ~src.readable THEN Report(FALSE, <<"Invalid XML">>, TRUE)
    ELSE Report(TRUE, <<>>, TRUE)

\* the adapter ZIPAdapter.validate chooses and its primary file
ZipChoice(members) ==
    LET excel_files == FilesWith(members, {XLS, XLSX})
        json_files  == FilesWith(members, {JSON})
        csv_files   == FilesWith(members, {CSV})
        xml_files   == FilesWith(members, {XML})
    IN  IF excel_files # <<>>
        THEN [adapter_type |-> "excel", primary |-> excel_files[1]]
        ELSE IF json_files # <<>>
        THEN [adapter_type |-> "json", primary |-> json_files[1]]
        ELSE IF csv_files # <<>>
        THEN [adapter_type |-> "csv", primary |-> <<>>]
        ELSE IF xml_files # <<>>
        THEN [adapter_type |-> "xml", primary |-> xml_files[1]]
        ELSE [adapter_type |-> "none", primary |-> <<>>]

\* ZIPAdapter.validate
ValidateZip(src) ==
    IF ~src.exists THEN Report(FALSE, <<"File not found">>, FALSE)
    ELSE IF ~src.readable THEN Report(FALSE, <<"Invalid ZIP file">>, TRUE)
    ELSE IF \E i \in 1..Len(src.members) : UnsafeMember(src.members[i])
    THEN Report(FALSE, <<"ZIP contains potentially unsafe path">>, FALSE)
    ELSE IF ZipChoice(src.members).adapter_type = "none"
    THEN Report(FALSE, <<"No supported data files found in ZIP">>, TRUE)
    ELSE [Report(TRUE, <<>>, TRUE) EXCEPT
            !.adapter_type = ZipChoice(src.members).adapter_type,
            !.primary = ZipChoice(src.members).primary]

\* validate() of the adapter class for the kind
ValidateOf(kind, src) ==
    CASE kind = "excel" -> ValidateExcel(src)
      [] kind = "json" -> ValidateJson(src)
      [] kind = "csv" -> ValidateCsv(src)
      [] kind = "xml" -> ValidateXml(src)
      [] kind = "zip" -> ValidateZip(src)

\* the adapter after validate() returned report rep
Recorded(a, rep) ==
    IF rep.recorded
    THEN [a EXCEPT !.report = [set |-> TRUE, valid |-> rep.valid, errors |-> rep.errors],
                   !.adapter_type = IF rep.valid THEN rep.adapter_type ELSE @,
                   !.primary = IF rep.valid THEN rep.primary ELSE @]
    ELSE a

\* `if not self._validation_report: self.validate()`
EnsureValidated(a) ==
    IF a.report.set THEN a ELSE Recorded(a, ValidateOf(a.kind, a.src))

\* the outcome of a call: what was raised, the report or error list that
\* came with it, the frames returned and whether data was read or extracted
Outcome(call, raised, valid, errors, frames, read) ==
    [call |-> call, raised |-> raised, valid |-> valid, errors |-> errors,
     frames |-> frames, read |-> read]

NoOutcome == Outcome("none", "none", FALSE, <<>>, "none", FALSE)

\* what load() does after a valid report, for the file formats: the Excel
\* and CSV adapters raise when no column maps to ccf_id, the JSON and XML
\* adapters return a controls frame without rows
ReadData(kind, src) ==
    IF kind = "csv" /\ ~src.readable
    THEN Outcome("load", "ParserError", FALSE, <<>>, "none", TRUE)
    ELSE IF src.has_id
    THEN Outcome("load", "none", FALSE, <<>>, "controls", TRUE)
    ELSE IF kind \in {"excel", "csv"}
    THEN Outcome("load", "ValueError", FALSE,
                 <<"Could not find CCF ID / Control ID column">>, "none", TRUE)
    ELSE Outcome("load", "none", FALSE, <<>>, "empty", TRUE)

\* the head of every load(): validate if no report is recorded, then
\* `if not self._validation_report['valid']: raise ValueError(...)`;
\* subscripting None raises TypeError.  "go" means load() reads on.
LoadGate(a) ==
    LET a1 == EnsureValidated(a)
    IN  IF ~a1.report.set
        THEN [ad |-> a1, go |-> FALSE,
              out |-> Outcome("load", "TypeError", FALSE, <<>>, "none", FALSE)]
        ELSE IF ~a1.report.valid
        THEN [ad |-> a1, go |-> FALSE,
              out |-> Outcome("load", "ValueError", FALSE, a1.report.errors,
                              "none", FALSE)]
        ELSE [ad |-> a1, go |-> TRUE, out |-> NoOutcome]

\* a freshly constructed adapter of the kind on the source
NewAdapter(kind, src) ==
    [kind |-> kind, src |-> src, report |-> NoReport,
     adapter_type |-> "none", primary |-> <<>>,
     temp |-> FALSE, made |-> 0, files |-> {},
     pc |-> "idle", i |-> 0, pending |-> NoOutcome,
     out |-> NoOutcome, calls |-> 0]

\* load() of the Excel, JSON, CSV-folder and XML adapters
PlainLoad(a) ==
    IF LoadGate(a).go
    THEN [ad |-> LoadGate(a).ad, out |-> ReadData(a.kind, a.src)]
    ELSE [ad |-> LoadGate(a).ad, out |-> LoadGate(a).out]

\* what the delegated adapter finds in the extraction directory: the
\* primary file if it was written; the CSV-folder adapter lists the
\* directory itself and sees only files directly in it
InnerSource(a) ==
    [kind |-> a.adapter_type,
     exists |-> IF a.adapter_type = "csv" THEN a.temp ELSE a.primary \in a.files,
     readable |-> TRUE,
     main |-> IF a.adapter_type = "csv"
              THEN a.src.main /\ \E f \in a.files :
                                    TopLevel(f) /\ EndsWith(Lower(f), CSV)
              ELSE a.src.main,
     has_id |-> a.src.has_id,
     members |-> <<>>]

\* variant: the directory is removed only when the delegated load returned
RemoveTempDirOnSuccess(a) ==
    IF a.pending.raised = "none" THEN [a EXCEPT !.temp = FALSE, !.files = {}] ELSE a

\* the finally block of ZIPAdapter.load: shutil.rmtree(self._temp_dir)
RemoveTempDir(a) == [a EXCEPT !.temp = FALSE, !.files = {}]

\* one call of validate()
Validate ==
    /\ ad.kind # "none"
    /\ ad.pc = "idle"
    /\ ad.calls < MaxCalls
    /\ ad' = [Recorded(ad, ValidateOf(ad.kind, ad.src)) EXCEPT
                !.out = Outcome("validate", "none",
                                ValidateOf(ad.kind, ad.src).valid,
                                ValidateOf(ad.kind, ad.src).errors, "none", FALSE),
                !.calls = @ + 1]
    /\ UNCHANGED <<db, nextId, runs, last, del, ss, wz, mp, fv, cl, tx>>

\* one call of load() on an Excel, JSON, CSV-folder or XML adapter
Load ==
    /\ ad.kind \notin {"none", "zip"}
    /\ ad.calls < MaxCalls
    /\ ad' = [PlainLoad(ad).ad EXCEPT !.out = PlainLoad(ad).out, !.calls = @ + 1]
    /\ UNCHANGED <<db, nextId, runs, last, del, ss, wz, mp, fv, cl, tx>>

\* ZIPAdapter.load up to tempfile.mkdtemp
ZipLoadBegin ==
    /\ ad.kind = "zip"
    /\ ad.pc = "idle"
    /\ ad.calls < MaxCalls
    /\ ad' = IF LoadGate(ad).go
             THEN [LoadGate(ad).ad EXCEPT
                     !.temp = TRUE, !.made = @ + 1, !.files = {},
                     !.pc = "extract", !.i = 1, !.calls = @ + 1]
             ELSE [LoadGate(ad).ad EXCEPT
                     !.out = LoadGate(ad).out, !.calls = @ + 1]
    /\ UNCHANGED <<db, nextId, runs, last, del, ss, wz, mp, fv, cl, tx>>

\* one iteration of _safe_extract; copying a member out of the archive
\* can fail (a damaged member, a full disk), which written tells
ZipExtract ==
    /\ ad.kind = "zip"
    /\ ad.pc = "extract"
    /\ ad.i <= Len(ad.src.members)
    /\ \E written \in BOOLEAN :
        ad' = LET member == ad.src.members[ad.i]
              IN  IF EndsWith(member, <<"/">>)
                  THEN [ad EXCEPT !.i = @ + 1]
                  ELSE IF ~IsSafePath(member)
                  THEN [ad EXCEPT
                          !.pc = "cleanup",
                          !.pending = Outcome("load", "ValueError", FALSE,
                                  <<"ZIP contains potentially malicious path">>,
                                  "none", TRUE)]
                  ELSE IF ~written
                  THEN [ad EXCEPT
                          !.pc = "cleanup",
                          !.pending = Outcome("load", "OSError", FALSE, <<>>,
                                              "none", TRUE)]
                  ELSE [ad EXCEPT !.files = @ \cup {member}, !.i = @ + 1]
    /\ UNCHANGED <<db, nextId, runs, last, del, ss, wz, mp, fv, cl, tx>>

\* the delegated adapter is constructed and its load() runs to its end
ZipInner ==
    /\ ad.kind = "zip"
    /\ ad.pc = "extract"
    /\ ad.i > Len(ad.src.members)
    /\ ad' = [ad EXCEPT
                !.pc = "cleanup",
                !.pending = [PlainLoad(NewAdapter(ad.adapter_type,
                                                 InnerSource(ad))).out
                             EXCEPT !.read = TRUE]]
    /\ UNCHANGED <<db, nextId, runs, last, del, ss, wz, mp, fv, cl, tx>>

\* the finally block, then load() returns or re-raises
ZipCleanup ==
    /\ ad.kind = "zip"
    /\ ad.pc = "cleanup"
    /\ ad' = [RemoveTempDir(ad) EXCEPT
                !.pc = "idle", !.out = ad.pending, !.pending = NoOutcome]
    /\ UNCHANGED <<db, nextId, runs, last, del, ss, wz, mp, fv, cl, tx>>

\* the sources an adapter is constructed on
Src(kind, exists, readable, main, has_id, members) ==
    [kind |-> kind, exists |-> exists, readable |-> readable, main |-> main,
     has_id |-> has_id, members |-> members]

FileKinds == {"excel", "json", "csv", "xml"}

FileSources ==
    {Src(k, TRUE, r, m, h, <<>>) :
        k \in FileKinds, r \in BOOLEAN, m \in BOOLEAN, h \in BOOLEAN}
    \cup {Src(k, FALSE, FALSE, FALSE, FALSE, <<>>) : k \in FileKinds}

\* archives: a member climbing out; an absolute member behind a workbook;
\* a harmless name with two dots; no data file; a workbook in a directory;
\* a workbook under __MACOSX beside a JSON file; CSV files in a directory;
\* CSV files at the top beside an XML file; one XML file
Archives ==
    { << <<".", ".", "/", "x">> \o CSV >>,
      << <<"a">> \o XLSX, <<"/", "e", "/", "c">> \o JSON >>,
      << <<"a", ".", ".", "b">> \o CSV >>,
      << <<"r", ".", "t", "x", "t">> >>,
      << <<"d", "/">>, <<"d", "/", "a">> \o XLSX >>,
      << <<"__MACOSX", "/", "a">> \o XLSX, <<"c">> \o JSON >>,
      << <<"d", "/", "c">> \o CSV >>,
      << <<"c", ".", "C", "S", "V">>, <<"x">> \o XML >>,
      << <<"x">> \o XML >> }

ZipSources ==
    {Src("zip", TRUE, TRUE, m, h, a) :
        a \in Archives, m \in BOOLEAN, h \in BOOLEAN}
    \cup {Src("zip", TRUE, FALSE, FALSE, FALSE, <<>>),
          Src("zip", FALSE, FALSE, FALSE, FALSE, <<>>)}

\* an adapter has been constructed on some source; nothing else runs
InitAdapter ==
    /\ db = NoDb
    /\ nextId = 1
    /\ runs = 0
    /\ last = NoOp
    /\ del = Idle
    /\ ss = NewSession
    /\ wz = NoRun
    /\ ad \in {NewAdapter(src.kind, src) : src \in FileSources \cup ZipSources}
    /\ mp = NoMappings
    /\ fv = NoValidation
    /\ cl = NoCall
    /\ tx = NoTx

NextAdapter ==
    \/ Validate
    \/ Load
    \/ ZipLoadBegin
    \/ ZipExtract
    \/ ZipInner
    \/ ZipCleanup

SpecAdapter == InitAdapter /\ [][NextAdapter]_vars

\* ---------------------------------------------------------------------
\* The mappings of a control: from the adapter's dict through the frame
\* into the controls table (seed_from_dataframes) and back (json.loads)
\* ---------------------------------------------------------------------
MaxRefs == 2

DQ == "\""

SQ == "'"

BS == "\\"

\* framework names as the adapters derive them from column names
MappingKeys == {<<"N">>, <<"I", SQ>>}

\* references as split_list_string returns them: stripped, no delimiter
MappingRefs == {<<"a">>, <<"b", SQ>>, <<"c", DQ>>, <<"d", BS>>}

RefLists == {<<>>} \cup UNION {[1..n -> MappingRefs] : n \in 1..MaxRefs}

Entry(key, refs) == [key |-> key, refs |-> refs]

\* the dicts an adapter builds for one row, in insertion order
Mappings ==
    {<<Entry(k, r)>> : k \in MappingKeys, r \in RefLists}
    \cup {<<Entry(kk[1], r1), Entry(kk[2], r2)>> :
            kk \in {x \in MappingKeys \X MappingKeys : x[1] # x[2]},
            r1 \in RefLists, r2 \in RefLists}

\* sep.join(parts)
RECURSIVE Join(_, _)
Join(parts, sep) ==
    IF parts = <<>> THEN <<>>
    ELSE IF Len(parts) = 1 THEN parts[1]
    ELSE parts[1] \o sep \o Join(Tail(parts), sep)

Has(s, c) == \E i \in 1..Len(s) : s[i] = c

\* the characters of s with a backslash before each backslash and each q
RECURSIVE Escape(_, _)
Escape(s, q) ==
    IF s = <<>> THEN <<>>
    ELSE (IF Head(s) \in {BS, q} THEN <<BS, Head(s)>> ELSE <<Head(s)>>)
         \o Escape(Tail(s), q)

\* json.dumps of a str
JsonString(s) == <<DQ>> \o Escape(s, DQ) \o <<DQ>>

\* json.dumps of a dict of lists of str (separators ', ' and ': ')
json_dumps(m) ==
    <<"{">>
    \o Join([i \in 1..Len(m) |->
                JsonString(m[i].key) \o <<":", " ", "[">>
                \o Join([j \in 1..Len(m[i].refs) |-> JsonString(m[i].refs[j])],
                        <<",", " ">>)
                \o <<"]">>],
            <<",", " ">>)
    \o <<"}">>

\* repr of a str: double quotes only when it holds ' and no "
ReprQuote(s) == IF Has(s, SQ) /\ ~Has(s, DQ) THEN DQ ELSE SQ

ReprString(s) == <<ReprQuote(s)>> \o Escape(s, ReprQuote(s)) \o <<ReprQuote(s)>>

\* str() of a dict of lists of str
str_dict(m) ==
    <<"{">>
    \o Join([i \in 1..Len(m) |->
                ReprString(m[i].key) \o <<":", " ", "[">>
                \o Join([j \in 1..Len(m[i].refs) |-> ReprString(m[i].refs[j])],
                        <<",", " ">>)
                \o <<"]">>],
            <<",", " ">>)
    \o <<"}">>

\* a parse that failed (json.JSONDecodeError)
Fail == [ok |-> FALSE, v |-> <<>>, rest |-> <<>>]

Parsed(v, rest) == [ok |-> TRUE, v |-> v, rest |-> rest]

\* JSON whitespace is skipped between tokens
RECURSIVE SkipWs(_)
SkipWs(t) ==
    IF t # <<>> /\ Head(t) \in {" ", "\n", "\t", "\r"} THEN SkipWs(Tail(t)) ELSE t

\* a JSON string after its opening quote
RECURSIVE ScanString(_, _)
ScanString(t, acc) ==
    IF t = <<>> THEN Fail
    ELSE IF Head(t) = DQ THEN Parsed(acc, Tail(t))
    ELSE IF Head(t) = BS
    THEN IF Len(t) >= 2 /\ t[2] \in {DQ, BS, "/"}
         THEN ScanString(SubSeq(t, 3, Len(t)), Append(acc, t[2]))
         ELSE Fail
    ELSE ScanString(Tail(t), Append(acc, Head(t)))

\* the strings of a JSON array, t standing at an element
RECURSIVE ParseItems(_, _)
ParseItems(t, acc) ==
    IF t = <<>> \/ Head(t) # DQ THEN Fail
    ELSE LET s == ScanString(Tail(t), <<>>)
             u == SkipWs(s.rest)
         IN  IF ~s.ok \/ u = <<>> THEN Fail
             ELSE IF Head(u) = ","
             THEN ParseItems(SkipWs(Tail(u)), Append(acc, s.v))
             ELSE IF Head(u) = "]" THEN Parsed(Append(acc, s.v), Tail(u))
             ELSE Fail

\* a JSON array of strings
ParseArray(t) ==
    IF t = <<>> \/ Head(t) # "[" THEN Fail
    ELSE IF SkipWs(Tail(t)) # <<>> /\ Head(SkipWs(Tail(t))) = "]"
    THEN Parsed(<<>>, Tail(SkipWs(Tail(t))))
    ELSE ParseItems(SkipWs(Tail(t)), <<>>)

\* the members of a JSON object, t standing at a member name
RECURSIVE ParseMembers(_, _)
ParseMembers(t, acc) ==
    IF t = <<>> \/ Head(t) # DQ THEN Fail
    ELSE LET k == ScanString(Tail(t), <<>>)
             c == SkipWs(k.rest)
         IN  IF ~k.ok \/ c = <<>> \/ Head(c) # ":" THEN Fail
             ELSE LET a == ParseArray(SkipWs(Tail(c)))
                      u == SkipWs(a.rest)
                  IN  IF ~a.ok \/ u = <<>> THEN Fail
                      ELSE IF Head(u) = ","
                      THEN ParseMembers(SkipWs(Tail(u)),
                                        Append(acc, Entry(k.v, a.v)))
                      ELSE IF Head(u) = "}"
                      THEN Parsed(Append(acc, Entry(k.v, a.v)), Tail(u))
                      ELSE Fail

\* json.loads on the texts that reach it here: '{}' and renderings of a
\* dict of lists of str (other JSON values do not occur)
json_loads(t) ==
    LET u == SkipWs(t)
        o == IF u = <<>> \/ Head(u) # "{" THEN Fail
             ELSE IF SkipWs(Tail(u)) # <<>> /\ Head(SkipWs(Tail(u))) = "}"
             THEN Parsed(<<>>, Tail(SkipWs(Tail(u))))
             ELSE ParseMembers(SkipWs(Tail(u)), <<>>)
    IN  IF o.ok /\ SkipWs(o.rest) = <<>> THEN Parsed(o.v, <<>>) ELSE Fail

\* the cell of the mappings column: None, a dict, or a str
NoneCell == [k |-> "none", s |-> <<>>, m |-> <<>>]

DictCell(m) == [k |-> "dict", s |-> <<>>, m |-> m]

TextCell(s) == [k |-> "str", s |-> s, m |-> <<>>]

\* clean_dataframe on the cell: clean_text(x) if pd.notna(x) else None,
\* where clean_text takes str(val)
CleanCell(cell) ==
    IF cell.k = "none" THEN NoneCell
    ELSE LET c == clean_text(Str(IF cell.k = "dict" THEN str_dict(cell.m)
                                 ELSE cell.s))
         IN  IF c.k = "str" THEN TextCell(c.s) ELSE NoneCell

\* "Handle mappings" of seed_from_dataframes: the text bound to the
\* mappings column of the INSERT / UPDATE
mappings_json(cell) ==
    IF cell.k = "dict" THEN json_dumps(cell.m)
    ELSE IF cell.k = "str" /\ json_loads(cell.s).ok THEN cell.s
    ELSE <<"{", "}">>

\* the adapter has produced the row
Produced(m) ==
    [pc |-> "loaded", path |-> "none", mappings |-> m, cell |-> DictCell(m),
     stored |-> <<>>, read |-> Fail]

\* run_seed: the frame goes from adapter.load() to seed_from_dataframes
MapRunSeed ==
    /\ mp.pc = "loaded"
    /\ mp' = [mp EXCEPT !.pc = "seeded", !.path = "run_seed",
                        !.stored = mappings_json(mp.cell)]
    /\ UNCHANGED <<db, nextId, runs, last, del, ss, wz, ad, fv, cl, tx>>

\* the wizard's validate stage: clean_dataframe(controls_df) into the
\* session state
MapWizardValidate ==
    /\ mp.pc = "loaded"
    /\ mp' = [mp EXCEPT !.pc = "cleaned", !.path = "wizard",
                        !.cell = CleanCell(mp.cell)]
    /\ UNCHANGED <<db, nextId, runs, last, del, ss, wz, ad, fv, cl, tx>>

\* the wizard's import stage: seed_from_dataframes on the session frames
MapWizardImport ==
    /\ mp.pc = "cleaned"
    /\ mp' = [mp EXCEPT !.pc = "seeded", !.stored = mappings_json(mp.cell)]
    /\ UNCHANGED <<db, nextId, runs, last, del, ss, wz, ad, fv, cl, tx>>

\* the control is read back: json.loads of the stored text
MapRead ==
    /\ mp.pc = "seeded"
    /\ mp' = [mp EXCEPT !.pc = "read", !.read = json_loads(mp.stored)]
    /\ UNCHANGED <<db, nextId, runs, last, del, ss, wz, ad, fv, cl, tx>>

InitMappings ==
    /\ db = NoDb
    /\ nextId = 1
    /\ runs = 0
    /\ last = NoOp
    /\ del = Idle
    /\ ss = NewSession
    /\ wz = NoRun
    /\ ad = NoAdapter
    /\ mp \in {Produced(m) : m \in Mappings}
    /\ fv = NoValidation
    /\ cl = NoCall
    /\ tx = NoTx

NextMappings ==
    \/ MapRunSeed
    \/ MapWizardValidate
    \/ MapWizardImport
    \/ MapRead

SpecMappings == InitMappings /\ [][NextMappings]_vars

\* ---------------------------------------------------------------------
\* Many sources: seed runs under a growing list of source names, so that
\* the default palette is used up and starts again; one source may be
\* deleted on the way
\* ---------------------------------------------------------------------
MaxSeeds == 12

PaletteNames ==
    << "S01", "S02", "S03", "S04", "S05", "S06",
       "S07", "S08", "S09", "S10", "S11", "S12" >>

\* one call of seed_from_dataframes under the i-th name with frames that
\* hold no rows
SeedNamed(i) ==
    LET r == seed_from_dataframes(db, nextId, PaletteNames[i], <<>>, <<>>)
    IN  /\ del.pc = 0
        /\ runs < MaxSeeds
        /\ db' = r.db
        /\ nextId' = r.n
        /\ runs' = runs + 1
        /\ last' = [NoOp EXCEPT
                      !.op = "seed", !.name = PaletteNames[i],
                      !.result = r.result, !.sid = r.sid, !.pre = db]
        /\ UNCHANGED <<del, ss, wz, ad, mp, fv, cl, tx>>

\* the newest name again or the next unused one; a source is deleted only
\* while none has been deleted before
NextSources ==
    \/ \E i \in 1..Len(PaletteNames) :
          /\ i \in {db.seq, db.seq + 1}
          /\ SeedNamed(i)
    \/ \E s \in {x.id : x \in db.compliance_sources} :
          /\ Cardinality(db.compliance_sources) = db.seq
          /\ DeleteBegin(s)
    \/ DeleteStep
    \/ DeleteCommit

SpecSources == Init /\ [][NextSources]_vars

\* ---------------------------------------------------------------------
\* DataValidator (src/utils/validators.py).  A frame is None or has a set
\* of columns and a sequence of rows; a row gives a cell for every column
\* name of the model, and only the cells of the frame's columns exist.
\* ---------------------------------------------------------------------
NoDataFrame == [none |-> TRUE, columns |-> {}, rows |-> <<>>]

DataFrame(columns, rows) == [none |-> FALSE, columns |-> columns, rows |-> rows]

\* `df is None or df.empty`: a frame with no rows or no columns is empty
IsEmpty(df) == df.none \/ df.rows = <<>> \/ df.columns = {}

\* _get_report
get_report(errors, warnings, info) ==
    [valid |-> Len(errors) = 0, errors |-> errors, warnings |-> warnings,
     info |-> info, error_count |-> Len(errors), warning_count |-> Len(warnings)]

\* the message, if its condition holds
When(cond, msg) == IF cond THEN <<msg>> ELSE <<>>

\* df[col].isna().sum()
Missing(df, col) == Cardinality({i \in 1..Len(df.rows) : df.rows[i][col].k = "none"})

\* some non-null value of the column occurs again further down
HasDuplicates(df, col) ==
    \E i, j \in 1..Len(df.rows) :
        i < j /\ df.rows[i][col].k # "none" /\ df.rows[i][col] = df.rows[j][col]

\* the characters of \w, '-' and '.' that occur in the ids of the model
IdChars == {"c", "k", "1", "_", "-", "."}

\* str.match(r'^[\w\-\.]+$')
IdFormatOk(cell) ==
    cell.s # <<>> /\ \A i \in 1..Len(cell.s) : cell.s[i] \in IdChars

\* check_mapping
check_mapping(m) ==
    \/ m.k = "none"
    \/ m.k = "dict"
    \/ m.k = "str" /\ json_loads(m.s).ok

\* missing values of an important column: a warning above 50 %, else info
MissingWarning(df, col) ==
    When(col \in df.columns /\ Missing(df, col) * 100 > 50 * Len(df.rows),
         "controls missing " \o col)

MissingInfo(df, col) ==
    When(/\ col \in df.columns
         /\ Missing(df, col) > 0
         /\ Missing(df, col) * 100 <= 50 * Len(df.rows),
         "controls missing " \o col)

validate_controls(df) ==
    IF IsEmpty(df)
    THEN get_report(<<"Controls DataFrame is empty">>, <<>>, <<>>)
    ELSE IF "ccf_id" \notin df.columns
    THEN get_report(<<"Missing required column: ccf_id">>, <<>>,
                    <<"Validating controls">>)
    ELSE get_report(
            <<>>,
            When(Missing(df, "ccf_id") > 0, "rows have empty CCF IDs")
            \o When(HasDuplicates(df, "ccf_id"), "duplicate CCF IDs found")
            \o MissingWarning(df, "title")
            \o When(\E i \in 1..Len(df.rows) :
                        /\ df.rows[i].ccf_id.k # "none"
                        /\ ~IdFormatOk(df.rows[i].ccf_id),
                    "CCF IDs contain unusual characters")
            \o When(/\ "mappings" \in df.columns
                    /\ \E i \in 1..Len(df.rows) : ~check_mapping(df.rows[i].mappings),
                    "controls have invalid mapping format"),
            <<"Validating controls">> \o MissingInfo(df, "title"))

validate_evidence(df) ==
    IF IsEmpty(df)
    THEN get_report(<<>>, <<>>, <<"Evidence DataFrame is empty">>)
    ELSE IF "ref_id" \notin df.columns
    THEN get_report(<<"Missing required column: ref_id">>, <<>>,
                    <<"Validating evidence items">>)
    ELSE get_report(
            <<>>,
            When(Missing(df, "ref_id") > 0, "evidence items have empty ref IDs")
            \o When(HasDuplicates(df, "ref_id"), "duplicate evidence ref IDs found"),
            <<"Validating evidence items">>
            \o When("title" \in df.columns /\ Missing(df, "title") > 0,
                    "evidence items missing title"))

\* set(evidence_df['ref_id'].dropna().astype(str).str.strip())
EvidenceRefs(df) ==
    {Strip(df.rows[i].ref_id.s) :
        i \in {j \in 1..Len(df.rows) : df.rows[j].ref_id.k # "none"}}

\* the references of a row that are not in the evidence set
RowMissing(row, evidence_refs) ==
    IF row.artifacts.k = "none" \/ row.artifacts.s = <<>> THEN {}
    ELSE LET refs == StripAll(SplitRec(row.artifacts.s, <<>>, <<>>))
         IN  {refs[i] : i \in 1..Len(refs)} \ evidence_refs

\* a call that returned the report
Returned(report) == [raised |-> "none", report |-> report]

\* validate_artifact_references: evidence_df['ref_id'] on a frame without
\* that column raises KeyError
validate_artifact_references(controls_df, evidence_df) ==
    IF IsEmpty(controls_df)
    THEN Returned(get_report(<<>>, <<>>, <<"No controls to validate">>))
    ELSE IF IsEmpty(evidence_df)
    THEN Returned(get_report(
            <<>>,
            When(/\ "artifacts" \in controls_df.columns
                 /\ Missing(controls_df, "artifacts") < Len(controls_df.rows),
                 "artifact references but no evidence data provided"),
            <<>>))
    ELSE IF "ref_id" \notin evidence_df.columns
    THEN [raised |-> "KeyError", report |-> get_report(<<>>, <<>>, <<>>)]
    ELSE IF "artifacts" \notin controls_df.columns
    THEN Returned(get_report(<<>>, <<>>, <<"No artifacts column in controls">>))
    ELSE IF \E i \in 1..Len(controls_df.rows) :
               RowMissing(controls_df.rows[i], EvidenceRefs(evidence_df)) # {}
    THEN Returned(get_report(<<>>, <<"artifact references not found in evidence">>,
                             <<>>))
    ELSE Returned(get_report(<<>>, <<>>, <<"All artifact references found">>))

\* full_validation: the combined report, or the exception that left it
full_validation(controls_df, evidence_df) ==
    LET ctrl_report == validate_controls(controls_df)
        ev_report   == validate_evidence(evidence_df)
        ref         == validate_artifact_references(controls_df, evidence_df)
    IN  [raised |-> ref.raised,
         valid |-> /\ ref.raised = "none"
                   /\ ctrl_report.valid /\ ev_report.valid /\ ref.report.valid,
         controls |-> ctrl_report, evidence |-> ev_report,
         references |-> ref.report,
         total_errors |-> ctrl_report.error_count + ev_report.error_count
                          + ref.report.error_count,
         total_warnings |-> ctrl_report.warning_count + ev_report.warning_count
                            + ref.report.warning_count]

\* control rows: a plain one; the same id again without a title, citing
\* an unknown reference; a null id; an id with a space and mappings that
\* are not JSON
VRow == [ccf_id |-> Str(<<"c">>), title |-> Str(<<"t">>),
         mappings |-> DictCell(<<Entry(<<"N">>, <<<<"a">>>>)>>),
         artifacts |-> Str(<<"e">>)]

VRowDup == [ccf_id |-> Str(<<"c">>), title |-> None, mappings |-> NoneCell,
            artifacts |-> Str(<<"e", ";", " ", "x">>)]

VRowNull == [ccf_id |-> None, title |-> None, mappings |-> NoneCell,
             artifacts |-> None]

VRowOdd == [ccf_id |-> Str(<<"k", " ", "1">>), title |-> Str(<<"t">>),
            mappings |-> TextCell(<<"{", "'", "N", "'", "}">>),
            artifacts |-> None]

ControlColumns == {"ccf_id", "title", "mappings", "artifacts"}

ValidatorControlFrames ==
    {NoDataFrame}
    \cup {DataFrame(cols, rows) :
            cols \in {ControlColumns, ControlColumns \ {"ccf_id"},
                      {"ccf_id"}, {}},
            rows \in {<<>>, <<VRow>>, <<VRow, VRowDup>>, <<VRowNull, VRowOdd>>,
                      <<VRowNull, VRowDup, VRowDup>>}}

\* evidence rows: "e"; a null id
VEv == [ref_id |-> Str(<<"e">>), title |-> Str(<<"t">>)]

VEvNull == [ref_id |-> None, title |-> None]

EvidenceColumns == {"ref_id", "title"}

ValidatorEvidenceFrames ==
    {NoDataFrame}
    \cup {DataFrame(cols, rows) :
            cols \in {EvidenceColumns, {"title"}, {}},
            rows \in {<<>>, <<VEv>>, <<VEv, VEvNull>>, <<VEv, VEv>>}}

\* the frames are at hand
ToValidate(controls_df, evidence_df) ==
    [pc |-> "loaded", controls_df |-> controls_df, evidence_df |-> evidence_df,
     out |-> full_validation(NoDataFrame, NoDataFrame)]

\* one call of full_validation
FullValidation ==
    /\ fv.pc = "loaded"
    /\ fv' = [fv EXCEPT !.pc = "done",
                        !.out = full_validation(fv.controls_df, fv.evidence_df)]
    /\ UNCHANGED <<db, nextId, runs, last, del, ss, wz, ad, mp, cl, tx>>

InitValidator ==
    /\ db = NoDb
    /\ nextId = 1
    /\ runs = 0
    /\ last = NoOp
    /\ del = Idle
    /\ ss = NewSession
    /\ wz = NoRun
    /\ ad = NoAdapter
    /\ mp = NoMappings
    /\ fv \in {ToValidate(c, e) :
                 c \in ValidatorControlFrames, e \in ValidatorEvidenceFrames}
    /\ cl = NoCall
    /\ tx = NoTx

NextValidator == FullValidation

SpecValidator == InitValidator /\ [][NextValidator]_vars

\* ---------------------------------------------------------------------
\* Header-row detection (adapters.py, detect_header_row)
\* ---------------------------------------------------------------------
\* the default of the parameter max_rows
max_rows == 15

Min(a, b) == IF a < b THEN a ELSE b

Max(a, b) == IF a > b THEN a ELSE b

\* needle in hay
Contains(hay, needle) ==
    \E i \in 0..(Len(hay) - Len(needle)) : SubSeq(hay, i + 1, i + Len(needle)) = needle

\* astype(str) of a preview cell: a blank cell (NaN) reads 'nan'
AsStr(cell) == IF cell.k = "none" THEN <<"n", "a", "n">> ELSE cell.s

\* one cell of the row as the loop compares it: lowered and stripped by
\* pandas, then clean_text(...) or '', then lowered again
RowCell(cell) ==
    LET c == clean_text(Str(Strip(Lower(AsStr(cell)))))
    IN  IF c = None THEN <<>> ELSE Lower(c.s)

\* sum(1 for m in markers_lower if any(m in str(cell) for cell in row_lower))
Matches(row, markers) ==
    Cardinality({j \in 1..Len(markers) :
        \E c \in 1..Len(row) : Contains(RowCell(row[c]), Lower(markers[j]))})

\* a variant without the floor of two
HeaderThresholdPlain(markers) == Len(markers) - 2

\* max(2, len(markers) - 2)
HeaderThreshold(markers) == Max(2, Len(markers) - 2)

\* the loop over range(min(max_rows, len(df_preview))) from index i on;
\* rows are numbered from 0 as in the code
RECURSIVE HeaderScan(_, _, _)
HeaderScan(df_preview, markers, i) ==
    IF i >= Min(max_rows, Len(df_preview)) THEN 0
    ELSE IF Matches(df_preview[i + 1], markers) >= HeaderThreshold(markers) THEN i
    ELSE HeaderScan(df_preview, markers, i + 1)

detect_header_row(df_preview, markers) == HeaderScan(df_preview, markers, 0)

\* --- the inputs -------------------------------------------------------
MarkerId == <<"i", "d">>
MarkerName == <<"n", "m">>
MarkerDomain == <<"d", "o">>
MarkerScf == <<"s", " ", "#">>
MarkerType == <<"t", "y">>

\* marker lists of every length up to five, one of them with upper case
MarkerLists ==
    { SubSeq(<<MarkerId, MarkerName, MarkerDomain, MarkerScf, MarkerType>>, 1, n) : n \in 0..5 }
    \cup { <<<<"I", "D">>, MarkerName, MarkerDomain>> }

BlankRow == <<None, None, None>>
TitleRow == <<Str(<<"C", "C", "F">>), None, None>>
\* four of the five markers, one behind special spaces and upper case
FourRow == <<Str(<<NBSP, "I", "D", " ">>), Str(<<"n", "m", " ", "d", "o">>), Str(<<"S", NBSP, "#">>)>>
\* two of the markers
TwoRow == <<Str(<<"i", ZWSP, "d">>), Str(<<"x">>), Str(<<"D", "o">>)>>
\* one marker
OneRow == <<Str(<<"t", "y">>), None, Str(<<"x">>)>>
\* all five markers
FiveRow == <<Str(<<"i", "d", "n", "m">>), Str(<<"d", "o", "t", "y">>), Str(<<"s", " ", "#">>)>>

PreviewRows == {BlankRow, TitleRow, FourRow, TwoRow, OneRow, FiveRow}

\* n rows without any marker
Padding(n) == [i \in 1..n |-> IF i % 2 = 0 THEN BlankRow ELSE TitleRow]

\* every preview of up to three rows, and previews whose first marker
\* row comes just before and just after the first max_rows rows
Previews ==
    UNION {[1..n -> PreviewRows] : n \in 0..3}
    \cup { Padding(n) \o <<r>> : n \in (max_rows - 2)..(max_rows + 1), r \in {FourRow, FiveRow} }

HeaderCall(df_preview, markers) ==
    [pc |-> "called", fn |-> "detect_header_row", df_preview |-> df_preview,
     markers |-> markers, out |-> 0]

DetectHeaderRow ==
    /\ cl.pc = "called"
    /\ cl.fn = "detect_header_row"
    /\ cl' = [cl EXCEPT !.pc = "done", !.out = detect_header_row(cl.df_preview, cl.markers)]
    /\ UNCHANGED <<db, nextId, runs, last, del, ss, wz, ad, mp, fv, tx>>

InitHeader ==
    /\ db = NoDb
    /\ nextId = 1
    /\ runs = 0
    /\ last = NoOp
    /\ del = Idle
    /\ ss = NewSession
    /\ wz = NoRun
    /\ ad = NoAdapter
    /\ mp = NoMappings
    /\ fv = NoValidation
    /\ cl \in {HeaderCall(p, m) : p \in Previews, m \in MarkerLists}
    /\ tx = NoTx

NextHeader == DetectHeaderRow

SpecHeader == InitHeader /\ [][NextHeader]_vars

\* ---------------------------------------------------------------------
\* Two seed_from_dataframes runs on one database file, each on its own
\* sqlite3 connection (seed.py, get_db and seed_from_dataframes).  A
\* connection sees the committed store plus its own uncommitted writes.
\* Its first INSERT / UPDATE / DELETE after a commit opens a transaction
\* and takes the database's write lock, which it holds until its next
\* conn.commit(); a SELECT never needs the lock.  A statement that needs
\* the lock while the other connection holds it waits; sqlite3.connect
\* was called without a timeout, so after the default 5 seconds the
\* statement raises OperationalError (database is locked) instead.
\* ---------------------------------------------------------------------
Other(k) == 3 - k

\* a run that has not executed its first statement yet
NewRun(name, controls_df, evidence_df) ==
    [name |-> name, controls_df |-> controls_df, evidence_df |-> evidence_df,
     at |-> "source", i |-> 1, sid |-> NULL_ID, color |-> "", txn |-> FALSE,
     st |-> StartState(NoDb, 0), lookup |-> {}, error |-> "none"]

\* what connection k reads
View(k) == IF tx.p[k].txn THEN tx.p[k].st.w ELSE db

\* the loop state of run k on its view, with the next fresh uuid
Loop(k) == [tx.p[k].st EXCEPT !.w = View(k), !.n = nextId]

\* connection k can write: the lock is free or its own
CanWrite(k) == tx.lock \in {0, k}

\* `if evidence_df is not None and not evidence_df.empty` and
\* `if controls_df is None or controls_df.empty: return stats`
AfterEvidence(p) == IF FrameEmpty(p.controls_df) THEN "done" ELSE "controls"

AfterSource(p) == IF FrameEmpty(p.evidence_df) THEN AfterEvidence(p) ELSE "evidence"

\* an exception leaves the with block: the connection is closed without
\* commit, its open transaction is rolled back and its lock released
RunRaised(k, error) ==
    tx' = [tx EXCEPT !.p[k].at = "failed", !.p[k].error = error,
                     !.p[k].txn = FALSE, !.p[k].st.w = NoDb,
                     !.lock = IF @ = k THEN 0 ELSE @]

\* the evidence / controls row at the run's position executes an INSERT
\* or UPDATE: every row whose key survives clean_text does
RowWrites(key) == ~CleanRaises(key) /\ ~SkipRow(clean_text(key))

\* the loop state after a row: kept with the view while a transaction is
\* open, without it otherwise
AfterRow(k, st1, writes) ==
    tx' = [tx EXCEPT !.p[k].i = @ + 1,
                     !.p[k].txn = @ \/ writes,
                     !.p[k].st = IF tx.p[k].txn \/ writes THEN st1
                                 ELSE [st1 EXCEPT !.w = NoDb],
                     !.lock = IF tx.p[k].txn \/ writes THEN k ELSE @]

\* conn.commit(): the view becomes the committed store
Committed(k, at) ==
    tx' = [tx EXCEPT !.p[k].at = at, !.p[k].i = 1, !.p[k].txn = FALSE,
                     !.p[k].st.w = NoDb,
                     !.lock = IF @ = k THEN 0 ELSE @]

\* SELECT id FROM compliance_sources WHERE name = ?, and, if there is
\* none, SELECT COUNT(*) for the color
TxSourceSelect(k) ==
    LET p == tx.p[k]
        found == SourceByName(db, p.name)
    IN  /\ tx.pc = "run"
        /\ p.at = "source"
        /\ tx' = IF found # {}
                 THEN [tx EXCEPT !.p[k].sid = (CHOOSE s \in found : TRUE).id,
                                 !.p[k].at = AfterSource(p)]
                 ELSE [tx EXCEPT !.p[k].at = "insert",
                                 !.p[k].color =
                                     SOURCE_COLORS[(Cardinality(db.compliance_sources)
                                                    % Len(SOURCE_COLORS)) + 1]]
        /\ UNCHANGED <<db, nextId, runs, last, del, ss, wz, ad, mp, fv, cl>>

\* INSERT INTO compliance_sources (...); conn.commit(); cursor.lastrowid
TxSourceInsert(k) ==
    LET p == tx.p[k]
        id == db.seq + 1
    IN  /\ tx.pc = "run"
        /\ p.at = "insert"
        /\ CanWrite(k)
        /\ IF SourceByName(db, p.name) # {}
           THEN \* UNIQUE constraint failed: compliance_sources.name
                /\ RunRaised(k, "IntegrityError")
                /\ UNCHANGED db
           ELSE /\ db' = [db EXCEPT
                            !.seq = id,
                            !.compliance_sources = @ \cup
                                {[id |-> id, name |-> p.name, color |-> p.color,
                                  control_count |-> 0, evidence_count |-> 0]}]
                /\ tx' = [tx EXCEPT !.p[k].sid = id, !.p[k].at = AfterSource(p)]
        /\ UNCHANGED <<nextId, runs, last, del, ss, wz, ad, mp, fv, cl>>

\* one iteration of the evidence loop
TxEvidenceRow(k) ==
    LET p == tx.p[k]
        row == p.evidence_df[p.i]
        st1 == EvidenceRow(Loop(k), p.sid, row)
    IN  /\ tx.pc = "run"
        /\ p.at = "evidence"
        /\ p.i <= Len(p.evidence_df)
        /\ RowWrites(row.ref_id) => CanWrite(k)
        /\ IF st1.raised
           THEN RunRaised(k, "ValueError")
           ELSE AfterRow(k, st1, RowWrites(row.ref_id))
        /\ nextId' = st1.n
        /\ UNCHANGED <<db, runs, last, del, ss, wz, ad, mp, fv, cl>>

\* conn.commit() after the evidence loop
TxEvidenceCommit(k) ==
    LET p == tx.p[k]
    IN  /\ tx.pc = "run"
        /\ p.at = "evidence"
        /\ p.i > Len(p.evidence_df)
        /\ db' = View(k)
        /\ Committed(k, "lookup")
        /\ UNCHANGED <<nextId, runs, last, del, ss, wz, ad, mp, fv, cl>>

\* SELECT id, ref_id FROM evidence WHERE source_id = ?
TxLookup(k) ==
    LET p == tx.p[k]
    IN  /\ tx.pc = "run"
        /\ p.at = "lookup"
        /\ tx' = [tx EXCEPT !.p[k].lookup = BuildLookup(db, p.sid),
                            !.p[k].at = AfterEvidence(p)]
        /\ UNCHANGED <<db, nextId, runs, last, del, ss, wz, ad, mp, fv, cl>>

\* one iteration of the controls loop
TxControlRow(k) ==
    LET p == tx.p[k]
        row == p.controls_df[p.i]
        st1 == ControlRow(Loop(k), p.sid, p.lookup, row)
    IN  /\ tx.pc = "run"
        /\ p.at = "controls"
        /\ p.i <= Len(p.controls_df)
        /\ RowWrites(row.ccf_id) => CanWrite(k)
        /\ IF st1.raised
           THEN RunRaised(k, "ValueError")
           ELSE AfterRow(k, st1, RowWrites(row.ccf_id))
        /\ nextId' = st1.n
        /\ UNCHANGED <<db, runs, last, del, ss, wz, ad, mp, fv, cl>>

\* update_compliance_source_counts(conn, source_id): two counts, the
\* UPDATE and conn.commit()
TxCounts(k) ==
    LET p == tx.p[k]
    IN  /\ tx.pc = "run"
        /\ p.at = "controls"
        /\ p.i > Len(p.controls_df)
        /\ CanWrite(k)
        /\ db' = update_compliance_source_counts(View(k), p.sid)
        /\ Committed(k, "history")
        /\ UNCHANGED <<nextId, runs, last, del, ss, wz, ad, mp, fv, cl>>

\* INSERT INTO import_history (...); conn.commit(); return stats
TxHistory(k) ==
    LET p == tx.p[k]
    IN  /\ tx.pc = "run"
        /\ p.at = "history"
        /\ CanWrite(k)
        /\ db' = RecordHistory(db, nextId, p.sid, p.st)
        /\ nextId' = nextId + 1
        /\ Committed(k, "done")
        /\ UNCHANGED <<runs, last, del, ss, wz, ad, mp, fv, cl>>

\* the next statement of run k needs the write lock
NeedsLock(k) ==
    LET p == tx.p[k]
    IN  \/ p.at \in {"insert", "history"}
        \/ p.at = "evidence" /\ p.i <= Len(p.evidence_df)
                             /\ RowWrites(p.evidence_df[p.i].ref_id)
        \/ p.at = "controls" /\ p.i <= Len(p.controls_df)
                             /\ RowWrites(p.controls_df[p.i].ccf_id)
        \/ p.at = "controls" /\ p.i > Len(p.controls_df)

\* the other connection kept its transaction open for longer than the
\* busy timeout: sqlite3.OperationalError: database is locked
TxLockTimeout(k) ==
    /\ tx.pc = "run"
    /\ NeedsLock(k)
    /\ tx.lock = Other(k)
    /\ RunRaised(k, "OperationalError")
    /\ UNCHANGED <<db, nextId, runs, last, del, ss, wz, ad, mp, fv, cl>>

\* --- the inputs -------------------------------------------------------
\* the store the two runs start on: empty, or holding both sources from
\* earlier imports with the natural ids the runs use
TxSeeded ==
    LET a == seed_from_dataframes(EmptyStore, 1, "Adobe CCF", <<RowC>>, <<EvE, EvF>>)
    IN  seed_from_dataframes(a.db, a.n, "SCF 2024", <<RowK>>, <<EvE>>)

TxStarts == { [db |-> EmptyStore, n |-> 1], [db |-> TxSeeded.db, n |-> TxSeeded.n] }

TxControlFramesA == { <<>>, <<RowK, RowC>> }

TxEvidenceFramesA == { <<>>, <<EvE2, EvF>> }

TxControlFramesB == { <<RowC2>>, <<RowNull, RowK>> }

TxEvidenceFramesB == { <<>>, <<EvNull, EvE2>> }

InitInterleaved ==
    /\ \E s \in TxStarts :
          /\ db = s.db
          /\ nextId = s.n
          /\ \E ca \in TxControlFramesA, ea \in TxEvidenceFramesA,
                cb \in TxControlFramesB, eb \in TxEvidenceFramesB :
                tx = [pc |-> "run", lock |-> 0, pre |-> s.db, pren |-> s.n,
                      p |-> << NewRun("Adobe CCF", ca, ea),
                               NewRun("SCF 2024", cb, eb) >>]
    /\ runs = 0
    /\ last = NoOp
    /\ del = Idle
    /\ ss = NewSession
    /\ wz = NoRun
    /\ ad = NoAdapter
    /\ mp = NoMappings
    /\ fv = NoValidation
    /\ cl = NoCall

NextInterleaved ==
    \E k \in {1, 2} :
        \/ TxSourceSelect(k)
        \/ TxSourceInsert(k)
        \/ TxEvidenceRow(k)
        \/ TxEvidenceCommit(k)
        \/ TxLookup(k)
        \/ TxControlRow(k)
        \/ TxCounts(k)
        \/ TxHistory(k)
        \/ TxLockTimeout(k)

SpecInterleaved == InitInterleaved /\ [][NextInterleaved]_vars

\* ---------------------------------------------------------------------
\* The column mapper (adapters.py: fuzzy_match_column, ColumnMapper).
\* Column names and aliases are sequences of characters.
\* ---------------------------------------------------------------------
\* the aliases of the canonical control fields, in their order
DEFAULT_CONTROL_MAPPINGS ==
       "ccf_id" :> <<
           <<"c", "c", "f", "_", "i", "d">>,  \* ccf_id
           <<"c", "c", "f", " ", "i", "d">>,  \* ccf id
           <<"c", "o", "n", "t", "r", "o", "l", " ", "i", "d">>,  \* control id
           <<"c", "o", "n", "t", "r", "o", "l", "_", "i", "d">>,  \* control_id
           <<"i", "d">>,  \* id
           <<"r", "e", "f">>,  \* ref
           <<"r", "e", "f", "e", "r", "e", "n", "c", "e">>,  \* reference
           <<"s", "c", "f", " ", "#">>,  \* scf #
           <<"s", "c", "f", "#">>,  \* scf#
           <<"s", "c", "f", " ", "i", "d">>,  \* scf id
           <<"c", "o", "n", "t", "r", "o", "l", " ", "#">>,  \* control #
           <<"c", "o", "n", "t", "r", "o", "l", "#">>,  \* control#
           <<"i", "d", "e", "n", "t", "i", "f", "i", "e", "r">>,  \* identifier
           <<"s", "c", "f", " ", "c", "o", "n", "t", "r", "o", "l">>,  \* scf control
           <<"c", "o", "n", "t", "r", "o", "l", " ", "i", "d", "e", "n", "t", "i", "f", "i", "e", "r">>,  \* control identifier
           <<"c", "t", "r", "l", " ", "i", "d">>,  \* ctrl id
           <<"#">>,  \* #
           <<"n", "o">>,  \* no
           <<"n", "u", "m", "b", "e", "r">>,  \* number
           <<"c", "o", "n", "t", "r", "o", "l", " ", "n", "u", "m", "b", "e", "r">>,  \* control number
           <<"c", "t", "r", "l">>,  \* ctrl
           <<"c", "o", "n", "t", "r", "o", "l", " ", "r", "e", "f">>  \* control ref
       >>
    @@ "domain" :> <<
           <<"c", "o", "n", "t", "r", "o", "l", " ", "d", "o", "m", "a", "i", "n">>,  \* control domain
           <<"d", "o", "m", "a", "i", "n">>,  \* domain
           <<"c", "a", "t", "e", "g", "o", "r", "y">>,  \* category
           <<"c", "o", "n", "t", "r", "o", "l", " ", "c", "a", "t", "e", "g", "o", "r", "y">>,  \* control category
           <<"s", "c", "f", " ", "d", "o", "m", "a", "i", "n">>,  \* scf domain
           <<"s", "e", "c", "u", "r", "i", "t", "y", " ", "d", "o", "m", "a", "i", "n">>,  \* security domain
           <<"c", "o", "n", "t", "r", "o", "l", " ", "f", "a", "m", "i", "l", "y">>,  \* control family
           <<"f", "a", "m", "i", "l", "y">>,  \* family
           <<"d", "o", "m", "a", "i", "n", "s", " ", "&", " ", "p", "r", "i", "n", "c", "i", "p", "l", "e", "s">>,  \* domains & principles
           <<"s", "e", "c", "u", "r", "i", "t", "y", " ", "f", "u", "n", "c", "t", "i", "o", "n">>,  \* security function
           <<"f", "u", "n", "c", "t", "i", "o", "n">>  \* function
       >>
    @@ "title" :> <<
           <<"c", "o", "n", "t", "r", "o", "l", " ", "n", "a", "m", "e">>,  \* control name
           <<"t", "i", "t", "l", "e">>,  \* title
           <<"n", "a", "m", "e">>,  \* name
           <<"c", "o", "n", "t", "r", "o", "l", " ", "t", "i", "t", "l", "e">>,  \* control title
           <<"s", "c", "f", " ", "c", "o", "n", "t", "r", "o", "l">>,  \* scf control
           <<"c", "o", "n", "t", "r", "o", "l">>,  \* control
           <<"s", "h", "o", "r", "t", " ", "d", "e", "s", "c", "r", "i", "p", "t", "i", "o", "n">>,  \* short description
           <<"c", "o", "n", "t", "r", "o", "l", " ", "s", "h", "o", "r", "t", " ", "n", "a", "m", "e">>,  \* control short name
           <<"c", "o", "n", "t", "r", "o", "l", " ", "s", "u", "m", "m", "a", "r", "y">>,  \* control summary
           <<"s", "u", "m", "m", "a", "r", "y">>  \* summary
       >>
    @@ "description" :> <<
           <<"c", "o", "n", "t", "r", "o", "l", " ", "d", "e", "s", "c", "r", "i", "p", "t", "i", "o", "n">>,  \* control description
           <<"d", "e", "s", "c", "r", "i", "p", "t", "i", "o", "n">>,  \* description
           <<"d", "e", "s", "c">>,  \* desc
           <<"d", "e", "t", "a", "i", "l", "s">>,  \* details
           <<"c", "o", "n", "t", "r", "o", "l", " ", "o", "b", "j", "e", "c", "t", "i", "v", "e">>,  \* control objective
           <<"o", "b", "j", "e", "c", "t", "i", "v", "e">>,  \* objective
           <<"f", "u", "l", "l", " ", "d", "e", "s", "c", "r", "i", "p", "t", "i", "o", "n">>,  \* full description
           <<"c", "o", "n", "t", "r", "o", "l", " ", "t", "e", "x", "t">>,  \* control text
           <<"s", "c", "f", " ", "c", "o", "n", "t", "r", "o", "l", " ", "d", "e", "s", "c", "r", "i", "p", "t", "i", "o", "n">>,  \* scf control description
           <<"c", "o", "n", "t", "r", "o", "l", " ", "q", "u", "e", "s", "t", "i", "o", "n">>,  \* control question
           <<"l", "o", "n", "g", " ", "d", "e", "s", "c", "r", "i", "p", "t", "i", "o", "n">>,  \* long description
           <<"c", "o", "n", "t", "r", "o", "l", " ", "d", "e", "t", "a", "i", "l">>,  \* control detail
           <<"c", "o", "n", "t", "r", "o", "l", " ", "d", "e", "t", "a", "i", "l", "s">>  \* control details
       >>
    @@ "type" :> <<
           <<"c", "o", "n", "t", "r", "o", "l", " ", "t", "y", "p", "e">>,  \* control type
           <<"t", "y", "p", "e">>,  \* type
           <<"c", "o", "n", "t", "r", "o", "l", "_", "t", "y", "p", "e">>,  \* control_type
           <<"c", "a", "t", "e", "g", "o", "r", "y", " ", "t", "y", "p", "e">>,  \* category type
           <<"c", "l", "a", "s", "s", "i", "f", "i", "c", "a", "t", "i", "o", "n">>,  \* classification
           <<"c", "o", "n", "t", "r", "o", "l", " ", "c", "l", "a", "s", "s", "i", "f", "i", "c", "a", "t", "i", "o", "n">>  \* control classification
       >>
    @@ "theme" :> <<
           <<"c", "o", "n", "t", "r", "o", "l", " ", "t", "h", "e", "m", "e">>,  \* control theme
           <<"t", "h", "e", "m", "e">>,  \* theme
           <<"c", "o", "n", "t", "r", "o", "l", "_", "t", "h", "e", "m", "e">>,  \* control_theme
           <<"c", "o", "n", "t", "r", "o", "l", " ", "c", "a", "t", "e", "g", "o", "r", "y">>,  \* control category
           <<"s", "u", "b", "c", "a", "t", "e", "g", "o", "r", "y">>,  \* subcategory
           <<"s", "u", "b", "-", "c", "a", "t", "e", "g", "o", "r", "y">>  \* sub-category
       >>
    @@ "guidance" :> <<
           <<"c", "o", "n", "t", "r", "o", "l", " ", "i", "m", "p", "l", "e", "m", "e", "n", "t", "a", "t", "i", "o", "n", " ", "g", "u", "i", "d", "a", "n", "c", "e">>,  \* control implementation guidance
           <<"i", "m", "p", "l", "e", "m", "e", "n", "t", "a", "t", "i", "o", "n", " ", "g", "u", "i", "d", "a", "n", "c", "e">>,  \* implementation guidance
           <<"g", "u", "i", "d", "a", "n", "c", "e">>,  \* guidance
           <<"i", "m", "p", "l", "e", "m", "e", "n", "t", "a", "t", "i", "o", "n">>,  \* implementation
           <<"i", "m", "p", "l", "e", "m", "e", "n", "t", "a", "t", "i", "o", "n", " ", "n", "o", "t", "e", "s">>,  \* implementation notes
           <<"n", "o", "t", "e", "s">>,  \* notes
           <<"c", "o", "n", "t", "r", "o", "l", " ", "g", "u", "i", "d", "a", "n", "c", "e">>,  \* control guidance
           <<"i", "m", "p", "l", "e", "m", "e", "n", "t", "a", "t", "i", "o", "n", " ", "d", "e", "t", "a", "i", "l", "s">>,  \* implementation details
           <<"h", "o", "w", " ", "t", "o", " ", "i", "m", "p", "l", "e", "m", "e", "n", "t">>,  \* how to implement
           <<"s", "u", "p", "p", "l", "e", "m", "e", "n", "t", "a", "l", " ", "g", "u", "i", "d", "a", "n", "c", "e">>,  \* supplemental guidance
           <<"i", "m", "p", "l", "e", "m", "e", "n", "t", "a", "t", "i", "o", "n", " ", "i", "n", "s", "t", "r", "u", "c", "t", "i", "o", "n", "s">>  \* implementation instructions
       >>
    @@ "testing" :> <<
           <<"c", "o", "n", "t", "r", "o", "l", " ", "t", "e", "s", "t", "i", "n", "g", " ", "p", "r", "o", "c", "e", "d", "u", "r", "e">>,  \* control testing procedure
           <<"t", "e", "s", "t", "i", "n", "g", " ", "p", "r", "o", "c", "e", "d", "u", "r", "e">>,  \* testing procedure
           <<"t", "e", "s", "t", "i", "n", "g">>,  \* testing
           <<"t", "e", "s", "t", " ", "p", "r", "o", "c", "e", "d", "u", "r", "e">>,  \* test procedure
           <<"a", "u", "d", "i", "t", " ", "p", "r", "o", "c", "e", "d", "u", "r", "e">>,  \* audit procedure
           <<"a", "s", "s", "e", "s", "s", "m", "e", "n", "t">>,  \* assessment
           <<"a", "s", "s", "e", "s", "s", "m", "e", "n", "t", " ", "p", "r", "o", "c", "e", "d", "u", "r", "e">>,  \* assessment procedure
           <<"t", "e", "s", "t">>,  \* test
           <<"a", "u", "d", "i", "t">>,  \* audit
           <<"a", "s", "s", "e", "s", "s", "m", "e", "n", "t", " ", "o", "b", "j", "e", "c", "t", "i", "v", "e", "s">>,  \* assessment objectives
           <<"t", "e", "s", "t", "i", "n", "g", " ", "g", "u", "i", "d", "a", "n", "c", "e">>,  \* testing guidance
           <<"a", "u", "d", "i", "t", " ", "s", "t", "e", "p", "s">>,  \* audit steps
           <<"t", "e", "s", "t", " ", "s", "t", "e", "p", "s">>,  \* test steps
           <<"v", "e", "r", "i", "f", "i", "c", "a", "t", "i", "o", "n">>,  \* verification
           <<"v", "a", "l", "i", "d", "a", "t", "i", "o", "n">>  \* validation
       >>
    @@ "artifacts" :> <<
           <<"a", "u", "d", "i", "t", " ", "a", "r", "t", "i", "f", "a", "c", "t", "s">>,  \* audit artifacts
           <<"a", "r", "t", "i", "f", "a", "c", "t", "s">>,  \* artifacts
           <<"e", "v", "i", "d", "e", "n", "c", "e">>,  \* evidence
           <<"e", "v", "i", "d", "e", "n", "c", "e", " ", "r", "e", "f", "s">>,  \* evidence refs
           <<"e", "v", "i", "d", "e", "n", "c", "e", " ", "r", "e", "f", "e", "r", "e", "n", "c", "e", "s">>,  \* evidence references
           <<"r", "e", "q", "u", "i", "r", "e", "d", " ", "e", "v", "i", "d", "e", "n", "c", "e">>,  \* required evidence
           <<"e", "v", "i", "d", "e", "n", "c", "e", " ", "r", "e", "q", "u", "i", "r", "e", "d">>,  \* evidence required
           <<"e", "v", "i", "d", "e", "n", "c", "e", " ", "r", "e", "q", "u", "e", "s", "t">>,  \* evidence request
           <<"e", "r", "l">>,  \* erl
           <<"e", "v", "i", "d", "e", "n", "c", "e", " ", "l", "i", "s", "t">>,  \* evidence list
           <<"d", "o", "c", "u", "m", "e", "n", "t", "a", "t", "i", "o", "n">>,  \* documentation
           <<"r", "e", "q", "u", "i", "r", "e", "d", " ", "d", "o", "c", "u", "m", "e", "n", "t", "a", "t", "i", "o", "n">>  \* required documentation
       >>

\* the aliases of the canonical evidence fields, in their order
DEFAULT_EVIDENCE_MAPPINGS ==
       "ref_id" :> <<
           <<"r", "e", "f", "e", "r", "e", "n", "c", "e", " ", "#">>,  \* reference #
           <<"r", "e", "f", "e", "r", "e", "n", "c", "e">>,  \* reference
           <<"r", "e", "f", "_", "i", "d">>,  \* ref_id
           <<"r", "e", "f">>,  \* ref
           <<"i", "d">>,  \* id
           <<"e", "v", "i", "d", "e", "n", "c", "e", " ", "i", "d">>,  \* evidence id
           <<"e", "v", "i", "d", "e", "n", "c", "e", "_", "i", "d">>,  \* evidence_id
           <<"e", "r", "l", " ", "#">>,  \* erl #
           <<"e", "r", "l", "#">>,  \* erl#
           <<"e", "r", "l", " ", "i", "d">>,  \* erl id
           <<"a", "r", "t", "i", "f", "a", "c", "t", " ", "i", "d">>,  \* artifact id
           <<"a", "r", "t", "i", "f", "a", "c", "t", " ", "#">>,  \* artifact #
           <<"#">>,  \* #
           <<"n", "o">>,  \* no
           <<"n", "u", "m", "b", "e", "r">>,  \* number
           <<"e", "v", "i", "d", "e", "n", "c", "e", " ", "n", "u", "m", "b", "e", "r">>,  \* evidence number
           <<"e", "v", "i", "d", "e", "n", "c", "e", " ", "r", "e", "f">>,  \* evidence ref
           <<"e", "v", "i", "d", "e", "n", "c", "e", " ", "r", "e", "f", "e", "r", "e", "n", "c", "e">>  \* evidence reference
       >>
    @@ "title" :> <<
           <<"e", "v", "i", "d", "e", "n", "c", "e", " ", "t", "i", "t", "l", "e">>,  \* evidence title
           <<"t", "i", "t", "l", "e">>,  \* title
           <<"n", "a", "m", "e">>,  \* name
           <<"e", "v", "i", "d", "e", "n", "c", "e", " ", "n", "a", "m", "e">>,  \* evidence name
           <<"d", "e", "s", "c", "r", "i", "p", "t", "i", "o", "n">>,  \* description
           <<"a", "r", "t", "i", "f", "a", "c", "t", " ", "n", "a", "m", "e">>,  \* artifact name
           <<"a", "r", "t", "i", "f", "a", "c", "t", " ", "t", "i", "t", "l", "e">>,  \* artifact title
           <<"e", "v", "i", "d", "e", "n", "c", "e", " ", "d", "e", "s", "c", "r", "i", "p", "t", "i", "o", "n">>,  \* evidence description
           <<"a", "r", "t", "i", "f", "a", "c", "t", " ", "d", "e", "s", "c", "r", "i", "p", "t", "i", "o", "n">>,  \* artifact description
           <<"e", "v", "i", "d", "e", "n", "c", "e", " ", "s", "u", "m", "m", "a", "r", "y">>  \* evidence summary
       >>
    @@ "domain" :> <<
           <<"e", "v", "i", "d", "e", "n", "c", "e", " ", "d", "o", "m", "a", "i", "n">>,  \* evidence domain
           <<"d", "o", "m", "a", "i", "n">>,  \* domain
           <<"c", "a", "t", "e", "g", "o", "r", "y">>,  \* category
           <<"e", "v", "i", "d", "e", "n", "c", "e", " ", "c", "a", "t", "e", "g", "o", "r", "y">>,  \* evidence category
           <<"a", "r", "t", "i", "f", "a", "c", "t", " ", "d", "o", "m", "a", "i", "n">>,  \* artifact domain
           <<"a", "r", "t", "i", "f", "a", "c", "t", " ", "c", "a", "t", "e", "g", "o", "r", "y">>  \* artifact category
       >>

\* s.lower() over the whole alphabet
LowerAll(s) ==
    [i \in 1..Len(s) |->
        CASE s[i] = "A" -> "a" [] s[i] = "B" -> "b" [] s[i] = "C" -> "c"
          [] s[i] = "D" -> "d" [] s[i] = "E" -> "e" [] s[i] = "F" -> "f"
          [] s[i] = "G" -> "g" [] s[i] = "H" -> "h" [] s[i] = "I" -> "i"
          [] s[i] = "J" -> "j" [] s[i] = "K" -> "k" [] s[i] = "L" -> "l"
          [] s[i] = "M" -> "m" [] s[i] = "N" -> "n" [] s[i] = "O" -> "o"
          [] s[i] = "P" -> "p" [] s[i] = "Q" -> "q" [] s[i] = "R" -> "r"
          [] s[i] = "S" -> "s" [] s[i] = "T" -> "t" [] s[i] = "U" -> "u"
          [] s[i] = "V" -> "v" [] s[i] = "W" -> "w" [] s[i] = "X" -> "x"
          [] s[i] = "Y" -> "y" [] s[i] = "Z" -> "z" [] OTHER -> s[i]]

\* s.lower().replace("_", " ").replace("-", " ")
FuzzyKey(s) ==
    [i \in 1..Len(s) |->
        IF LowerAll(s)[i] \in {"_", "-"} THEN " " ELSE LowerAll(s)[i]]

\* the number of equal characters of a from i and b from j, inside the
\* windows that end at ahi and bhi
RunAt(a, i, ahi, b, j, bhi) ==
    LET lim == Min(ahi - i + 1, bhi - j + 1)
    IN  CHOOSE n \in 0..lim :
            /\ \A d \in 0..(n - 1) : a[i + d] = b[j + d]
            /\ (n = lim \/ a[i + n] # b[j + n])

\* SequenceMatcher.find_longest_match(alo, ahi, blo, bhi) without junk:
\* the longest block, the earliest in a, then the earliest in b
LongestOf(blocks) ==
    IF blocks = {} THEN [i |-> 0, j |-> 0, k |-> 0]
    ELSE CHOOSE m \in blocks :
            \A r \in blocks :
                \/ m.k > r.k
                \/ m.k = r.k /\ m.i < r.i
                \/ m.k = r.k /\ m.i = r.i /\ m.j <= r.j

find_longest_match(a, alo, ahi, b, blo, bhi) ==
    LongestOf({[i |-> p[1], j |-> p[2], k |-> RunAt(a, p[1], ahi, b, p[2], bhi)] :
                  p \in {q \in (alo..ahi) \X (blo..bhi) : a[q[1]] = b[q[2]]}})

\* the total size of get_matching_blocks(): the longest block, then the
\* same to its left and to its right
RECURSIVE MatchedIn(_, _, _, _, _, _)
RECURSIVE Matched(_, _, _, _, _, _, _)
Matched(m, a, alo, ahi, b, blo, bhi) ==
    IF m.k = 0 THEN 0
    ELSE m.k + MatchedIn(a, alo, m.i - 1, b, blo, m.j - 1)
             + MatchedIn(a, m.i + m.k, ahi, b, m.j + m.k, bhi)

MatchedIn(a, alo, ahi, b, blo, bhi) ==
    IF alo > ahi \/ blo > bhi THEN 0
    ELSE Matched(find_longest_match(a, alo, ahi, b, blo, bhi), a, alo, ahi, b, blo, bhi)

\* a score as a fraction <<numerator, denominator>>
Fraction(num, den) == <<num, den>>

Greater(x, y) == x[1] * y[2] > y[1] * x[2]

\* SequenceMatcher(None, a, b).ratio() = 2.0 * matches / (len(a) + len(b))
Ratio(a, b) ==
    IF Len(a) + Len(b) = 0 THEN Fraction(1, 1)
    ELSE Fraction(2 * MatchedIn(a, 1, Len(a), b, 1, Len(b)), Len(a) + Len(b))

\* the parameter threshold = 0.6 and the score 0.8 of a containment
FuzzyThreshold == Fraction(3, 5)

ContainScore == Fraction(4, 5)

\* no column found
NoColumn == <<"None">>

\* the loop of fuzzy_match_column from column i on; best is the pair of
\* best_match and best_score
RECURSIVE FuzzyLoop(_, _, _, _)
FuzzyLoop(columns, target_lower, i, best) ==
    IF i > Len(columns) THEN best.match
    ELSE LET col == columns[i]
             col_lower == FuzzyKey(col)
             contained == Contains(col_lower, target_lower) \/ Contains(target_lower, col_lower)
         IN  IF col_lower = target_lower THEN col
             ELSE IF contained /\ Greater(ContainScore, best.score)
                  THEN FuzzyLoop(columns, target_lower, i + 1,
                                 [match |-> col, score |-> ContainScore])
             ELSE IF Greater(Ratio(target_lower, col_lower), best.score)
                  THEN FuzzyLoop(columns, target_lower, i + 1,
                                 [match |-> col, score |-> Ratio(target_lower, col_lower)])
             ELSE FuzzyLoop(columns, target_lower, i + 1, best)

fuzzy_match_column(columns, target) ==
    FuzzyLoop(columns, FuzzyKey(target), 1, [match |-> NoColumn, score |-> FuzzyThreshold])

\* custom_mappings = None
NoCustom == [none |-> TRUE]

\* a custom_mappings dict: a function from its keys to their values
Custom(dict) == [none |-> FALSE, dict |-> dict]

\* the merge loop of __init__: custom aliases go in front of the built-in
\* ones of a field, an unknown field is added
Prepend(defaults, custom) ==
    [key \in DOMAIN defaults \cup DOMAIN custom |->
        IF key \in DOMAIN custom
        THEN IF key \in DOMAIN defaults THEN custom[key] \o defaults[key]
             ELSE custom[key]
        ELSE defaults[key]]

\* ColumnMapper(custom_mappings)
ColumnMapper(custom_mappings) ==
    [control_mappings |->
        IF ~custom_mappings.none /\ "controls" \in DOMAIN custom_mappings.dict
        THEN Prepend(DEFAULT_CONTROL_MAPPINGS, custom_mappings.dict["controls"])
        ELSE DEFAULT_CONTROL_MAPPINGS,
     evidence_mappings |->
        IF ~custom_mappings.none /\ "evidence" \in DOMAIN custom_mappings.dict
        THEN Prepend(DEFAULT_EVIDENCE_MAPPINGS, custom_mappings.dict["evidence"])
        ELSE DEFAULT_EVIDENCE_MAPPINGS]

\* clean_text(str(c)) or str(c), then .lower().strip()
ColumnKey(c) ==
    LET cleaned == clean_text(Str(c))
    IN  Strip(LowerAll(IF cleaned = None THEN c ELSE cleaned.s))

\* df_columns_lower[key]: the last column with that key
ColumnOfKey(df_columns, key) ==
    df_columns[CHOOSE i \in 1..Len(df_columns) :
                  /\ ColumnKey(df_columns[i]) = key
                  /\ \A j \in (i + 1)..Len(df_columns) : ColumnKey(df_columns[j]) # key]

\* the first alias that is the key of a column, 0 if there is none
FirstExact(df_columns, alternatives) ==
    LET hits == {a \in 1..Len(alternatives) :
                    \E i \in 1..Len(df_columns) :
                        ColumnKey(df_columns[i]) = LowerAll(alternatives[a])}
    IN  IF hits = {} THEN 0 ELSE CHOOSE a \in hits : \A h \in hits : a <= h

\* `matched = fuzzy_match_column(df_columns, alternatives[0])`
MatchFirstAlias(df_columns, alternatives) ==
    fuzzy_match_column(df_columns, alternatives[1])

\* the column one canonical field is mapped to, NoColumn if none
MapField(df_columns, alternatives) ==
    IF FirstExact(df_columns, alternatives) # 0
    THEN ColumnOfKey(df_columns, LowerAll(alternatives[FirstExact(df_columns, alternatives)]))
    ELSE MatchFirstAlias(df_columns, alternatives)

\* map_columns(df_columns, mapping_type): the fields that found a column
map_columns(mapper, df_columns, mapping_type) ==
    LET mappings == IF mapping_type = "controls" THEN mapper.control_mappings
                    ELSE mapper.evidence_mappings
        found == {canonical \in DOMAIN mappings :
                     MapField(df_columns, mappings[canonical]) # NoColumn}
    IN  [canonical \in found |-> MapField(df_columns, mappings[canonical])]

\* --- the inputs -------------------------------------------------------
\* 'Control Identification Number'
ColIdentificationNumber == <<"C", "o", "n", "t", "r", "o", "l", " ", "I", "d", "e", "n", "t", "i", "f", "i", "c", "a", "t", "i", "o", "n", " ", "N", "u", "m", "b", "e", "r">>

\* 'Random Notes'
ColRandomNotes == <<"R", "a", "n", "d", "o", "m", " ", "N", "o", "t", "e", "s">>

\* 'Identifier'
ColIdentifier == <<"I", "d", "e", "n", "t", "i", "f", "i", "e", "r">>

\* 'Control ID'
ColControlId == <<"C", "o", "n", "t", "r", "o", "l", " ", "I", "D">>

\* 'Control ID Number'
ColControlIdNumber == <<"C", "o", "n", "t", "r", "o", "l", " ", "I", "D", " ", "N", "u", "m", "b", "e", "r">>

\* 'CCF-ID'
ColCcfId == <<"C", "C", "F", "-", "I", "D">>

\* 'Control<NBSP>Name'
ColControlName == <<"C", "o", "n", "t", "r", "o", "l", NBSP, "N", "a", "m", "e">>

\* 'Notes'
ColNotes == <<"N", "o", "t", "e", "s">>

\* 'Owner'
ColOwner == <<"O", "w", "n", "e", "r">>

\* 'Reference #'
ColReference == <<"R", "e", "f", "e", "r", "e", "n", "c", "e", " ", "#">>

\* 'Artifact Key'
ColArtifactKey == <<"A", "r", "t", "i", "f", "a", "c", "t", " ", "K", "e", "y">>

ColumnNames ==
    { ColIdentificationNumber, ColRandomNotes, ColIdentifier, ColControlId,
      ColControlIdNumber, ColCcfId, ColControlName, ColNotes, ColOwner,
      ColReference }

\* every list of one column and of two different columns
ColumnLists ==
    { <<c>> : c \in ColumnNames }
    \cup { <<c[1], c[2]>> : c \in {d \in ColumnNames \X ColumnNames : d[1] # d[2]} }

MapCall(custom, df_columns, mapping_type) ==
    [pc |-> "called", fn |-> "map_columns", custom |-> custom,
     df_columns |-> df_columns, mapping_type |-> mapping_type, out |-> <<>>]

\* ColumnMapper(custom).map_columns(df_columns, mapping_type)
MapColumns ==
    /\ cl.pc = "called"
    /\ cl.fn = "map_columns"
    /\ cl' = [cl EXCEPT !.pc = "done",
                        !.out = map_columns(ColumnMapper(cl.custom), cl.df_columns,
                                            cl.mapping_type)]
    /\ UNCHANGED <<db, nextId, runs, last, del, ss, wz, ad, mp, fv, tx>>

InitColumns ==
    /\ db = NoDb
    /\ nextId = 1
    /\ runs = 0
    /\ last = NoOp
    /\ del = Idle
    /\ ss = NewSession
    /\ wz = NoRun
    /\ ad = NoAdapter
    /\ mp = NoMappings
    /\ fv = NoValidation
    /\ cl \in {MapCall(NoCustom, c, t) : c \in ColumnLists, t \in {"controls", "evidence"}}
    /\ tx = NoTx

NextColumns == MapColumns

SpecColumns == InitColumns /\ [][NextColumns]_vars

\* ---------------------------------------------------------------------
\* Custom column mappings on their way to the adapter that parses the
\* data: directly (get_adapter hands column_mappings to the adapter) and
\* through ZIPAdapter.load, which hands the inner adapter
\* self.column_mapper.control_mappings.  The frames are built as
\* JSONAdapter.load builds them.
\* ---------------------------------------------------------------------
ControlFields ==
    {"ccf_id", "domain", "title", "description", "type", "theme", "guidance",
     "testing", "mappings", "artifacts"}

EvidenceFields == {"ref_id", "title", "domain"}

\* the index of a column in the list of columns
ColumnIndex(columns, name) == CHOOSE i \in 1..Len(columns) : columns[i] = name

\* the canonical frame: a column per mapped field, cleaned cell by cell,
\* the missing required fields as None, the rows without key dropped
Normalize(col_map, columns, rows, required, key) ==
    LET whole == [r \in 1..Len(rows) |->
                     [f \in DOMAIN col_map \cup required |->
                         IF f \in DOMAIN col_map
                         THEN clean_text(rows[r][ColumnIndex(columns, col_map[f])])
                         ELSE None]]
    IN  SelectSeq(whole, LAMBDA row : row[key] # None)

\* what an adapter with these custom mappings loads from the data
LoadWith(custom, data) ==
    [controls_map |-> map_columns(ColumnMapper(custom), data.controls, "controls"),
     evidence_map |-> map_columns(ColumnMapper(custom), data.evidence, "evidence"),
     controls_df  |-> Normalize(map_columns(ColumnMapper(custom), data.controls, "controls"),
                                data.controls, data.control_rows, ControlFields, "ccf_id"),
     evidence_df  |-> Normalize(map_columns(ColumnMapper(custom), data.evidence, "evidence"),
                                data.evidence, data.evidence_rows, EvidenceFields, "ref_id")]

\* column_mappings=self.column_mapper.control_mappings
InnerMappings(custom) == Custom(ColumnMapper(custom).control_mappings)

\* --- the inputs -------------------------------------------------------
\* two rows for n columns; the second has no value in the first column
TableRows(n) ==
    << [c \in 1..n |-> Str(<<"a">>)],
       [c \in 1..n |-> IF c = 1 THEN None ELSE Str(<<NBSP, "b">>)] >>

Data(controls, evidence) ==
    [controls |-> controls, control_rows |-> TableRows(Len(controls)),
     evidence |-> evidence, evidence_rows |-> TableRows(Len(evidence))]

\* custom mappings: none, a new alias for ccf_id, a new field, a new
\* alias for the evidence ref_id, and all of them
CustomMappings ==
    { NoCustom,
      Custom("controls" :> ("ccf_id" :> <<ColArtifactKey>>)),
      Custom("controls" :> ("owner" :> <<ColOwner>>)),
      Custom("evidence" :> ("ref_id" :> <<ColArtifactKey>>)),
      Custom("controls" :> ("ccf_id" :> <<ColArtifactKey>> @@ "owner" :> <<ColOwner>>)
             @@ "evidence" :> ("ref_id" :> <<ColArtifactKey>>)) }

MappedControlColumns ==
    { <<ColArtifactKey, ColControlName>>, <<ColControlId, ColOwner>>,
      <<ColArtifactKey, ColOwner>>, <<ColIdentifier, ColArtifactKey>>,
      <<ColNotes>>, <<ColOwner, ColCcfId>> }

MappedEvidenceColumns == { <<ColArtifactKey, ColNotes>>, <<ColReference, ColArtifactKey>> }

NotLoaded == [none |-> TRUE]

Loaded(frames) == [none |-> FALSE, frames |-> frames]

LoadCall(custom, data) ==
    [pc |-> "called", fn |-> "load", custom |-> custom, data |-> data,
     direct |-> NotLoaded, zip |-> NotLoaded]

\* get_adapter(...).load() on the file itself
LoadDirect ==
    /\ cl.pc = "called"
    /\ cl.fn = "load"
    /\ cl.direct = NotLoaded
    /\ cl' = [cl EXCEPT !.direct = Loaded(LoadWith(cl.custom, cl.data))]
    /\ UNCHANGED <<db, nextId, runs, last, del, ss, wz, ad, mp, fv, tx>>

\* ZIPAdapter(path, column_mappings).load(): the inner adapter's load()
LoadThroughZip ==
    /\ cl.pc = "called"
    /\ cl.fn = "load"
    /\ cl.zip = NotLoaded
    /\ cl' = [cl EXCEPT !.zip = Loaded(LoadWith(InnerMappings(cl.custom), cl.data))]
    /\ UNCHANGED <<db, nextId, runs, last, del, ss, wz, ad, mp, fv, tx>>

InitZipMappings ==
    /\ db = NoDb
    /\ nextId = 1
    /\ runs = 0
    /\ last = NoOp
    /\ del = Idle
    /\ ss = NewSession
    /\ wz = NoRun
    /\ ad = NoAdapter
    /\ mp = NoMappings
    /\ fv = NoValidation
    /\ cl \in {LoadCall(m, Data(c, e)) :
                 m \in CustomMappings, c \in MappedControlColumns,
                 e \in MappedEvidenceColumns}
    /\ tx = NoTx

NextZipMappings == LoadDirect \/ LoadThroughZip

SpecZipMappings == InitZipMappings /\ [][NextZipMappings]_vars

\* ---------------------------------------------------------------------
\* The roles of the sheets of a workbook (ExcelAdapter)
\* ---------------------------------------------------------------------

\* the markers of _auto_detect_sheets, as tuples of characters
main_markers ==
    <<<<"c", "c", "f", " ", "i", "d">>,
      <<"c", "o", "n", "t", "r", "o", "l", " ", "i", "d">>,
      <<"c", "o", "n", "t", "r", "o", "l", " ", "n", "a", "m", "e">>,
      <<"c", "o", "n", "t", "r", "o", "l", " ", "d", "o", "m", "a", "i", "n">>,
      <<"s", "c", "f", " ", "#">>,
      <<"s", "c", "f", " ", "c", "o", "n", "t", "r", "o", "l">> >>

\* the markers of a guidance sheet
guidance_markers ==
    <<<<"i", "m", "p", "l", "e", "m", "e", "n", "t", "a", "t", "i", "o", "n", " ", "g", "u", "i", "d", "a", "n", "c", "e">>,
      <<"t", "e", "s", "t", "i", "n", "g", " ", "p", "r", "o", "c", "e", "d", "u", "r", "e">>,
      <<"c", "o", "n", "t", "r", "o", "l", " ", "g", "u", "i", "d", "a", "n", "c", "e">> >>

\* the markers of an evidence sheet
evidence_markers ==
    <<<<"e", "v", "i", "d", "e", "n", "c", "e", " ", "t", "i", "t", "l", "e">>,
      <<"r", "e", "f", "e", "r", "e", "n", "c", "e", " ", "#">>,
      <<"e", "v", "i", "d", "e", "n", "c", "e", " ", "d", "o", "m", "a", "i", "n">>,
      <<"e", "r", "l">> >>

\* a sheet of the workbook: the cells of its first five rows, row after
\* row, or a sheet whose preview cannot be read
Sheet(cells) == [readable |-> TRUE, cells |-> cells]

Unreadable == [readable |-> FALSE, cells |-> <<>>]

\* ' '.join(preview.astype(str).values.flatten()).lower(), then
\* clean_text(all_text) or all_text
AllText(cells) ==
    LET all_text == Lower(Join([i \in 1..Len(cells) |-> AsStr(cells[i])], <<" ">>))
        c == clean_text(Str(all_text))
    IN  IF c = None THEN all_text ELSE c.s

\* sum(1 for m in markers if m in all_text)
Score(markers, all_text) ==
    Cardinality({j \in 1..Len(markers) : Contains(all_text, markers[j])})

\* the three scores of a sheet
Scores(sheet) ==
    LET text(all_text) ==
            [main |-> Score(main_markers, all_text),
             guidance |-> Score(guidance_markers, all_text),
             evidence |-> Score(evidence_markers, all_text)]
    IN  text(AllText(sheet.cells))

NoPurposes == [main |-> None, guidance |-> None, evidence |-> None]

\* a variant that lets a later sheet take a role over
PurposeOfLast(purposes, sheet, sheet_name) ==
    IF ~sheet.readable THEN purposes
    ELSE LET s == Scores(sheet)
         IN  IF s.main >= 2 THEN [purposes EXCEPT !.main = Str(sheet_name)]
             ELSE IF s.guidance >= 2 THEN [purposes EXCEPT !.guidance = Str(sheet_name)]
             ELSE IF s.evidence >= 2 THEN [purposes EXCEPT !.evidence = Str(sheet_name)]
             ELSE purposes

\* one turn of the loop over xls.sheet_names: the if / elif / elif chain,
\* and the except clause that skips a sheet that cannot be read
PurposeOf(purposes, sheet, sheet_name) ==
    IF ~sheet.readable THEN purposes
    ELSE LET s == Scores(sheet)
         IN  IF s.main >= 2 /\ purposes.main = None
                 THEN [purposes EXCEPT !.main = Str(sheet_name)]
             ELSE IF s.guidance >= 2 /\ purposes.guidance = None
                 THEN [purposes EXCEPT !.guidance = Str(sheet_name)]
             ELSE IF s.evidence >= 2 /\ purposes.evidence = None
                 THEN [purposes EXCEPT !.evidence = Str(sheet_name)]
             ELSE purposes

RECURSIVE DetectFrom(_, _, _, _)
DetectFrom(sheets, sheet_names, i, purposes) ==
    IF i > Len(sheets) THEN purposes
    ELSE DetectFrom(sheets, sheet_names, i + 1, PurposeOf(purposes, sheets[i], sheet_names[i]))

\* sheet_purposes of _auto_detect_sheets; a role that no sheet took is None
\* here and absent from the dict in the code
auto_detect_sheets(sheets, sheet_names) == DetectFrom(sheets, sheet_names, 1, NoPurposes)

\* if not self.sheet_main and 'main' in detected: self.sheet_main = detected['main']
Chosen(explicit, detected) ==
    IF explicit = None /\ detected # None THEN detected ELSE explicit

\* the sheets ExcelAdapter.validate settles on and its report, for a
\* workbook that exists and opens
ExcelValidate(sheets, sheet_names, sheet_main, sheet_guidance, sheet_evidence, auto) ==
    LET detected == IF auto THEN auto_detect_sheets(sheets, sheet_names) ELSE NoPurposes
        main == Chosen(sheet_main, detected.main)
        guidance == Chosen(sheet_guidance, detected.guidance)
        evidence == Chosen(sheet_evidence, detected.evidence)
    IN  [detected |-> detected, sheet_main |-> main, sheet_guidance |-> guidance,
         sheet_evidence |-> evidence, valid |-> main # None,
         warnings |-> (IF guidance = None THEN 1 ELSE 0) + (IF evidence = None THEN 1 ELSE 0)]

\* --- the inputs -------------------------------------------------------

\* three main markers, one behind a special space
MainSheet ==
    Sheet(<<Str(<<"C", "C", "F", " ", "I", "D">>),
            Str(<<"C", "o", "n", "t", "r", "o", "l", " ", "N", "a", "m", "e">>),
            Str(<<"C", "o", "n", "t", "r", "o", "l", NBSP, "D", "o", "m", "a", "i", "n">>),
            None >>)

\* one main marker and two guidance markers
GuidanceSheet ==
    Sheet(<<Str(<<"C", "C", "F", " ", "I", "D">>),
            Str(<<"I", "m", "p", "l", "e", "m", "e", "n", "t", "a", "t", "i", "o", "n", " ", "G", "u", "i", "d", "a", "n", "c", "e">>),
            Str(<<"T", "e", "s", "t", "i", "n", "g", " ", "P", "r", "o", "c", "e", "d", "u", "r", "e">>) >>)

\* three evidence markers
EvidenceSheet ==
    Sheet(<<Str(<<"R", "e", "f", "e", "r", "e", "n", "c", "e", " ", "#">>),
            Str(<<"E", "v", "i", "d", "e", "n", "c", "e", " ", "T", "i", "t", "l", "e">>),
            None,
            Str(<<"E", "v", "i", "d", "e", "n", "c", "e", " ", "D", "o", "m", "a", "i", "n">>) >>)

\* two main markers and two guidance markers
CombinedSheet ==
    Sheet(<<Str(<<"C", "o", "n", "t", "r", "o", "l", " ", "I", "D">>),
            Str(<<"C", "o", "n", "t", "r", "o", "l", " ", "N", "a", "m", "e">>),
            Str(<<"C", "o", "n", "t", "r", "o", "l", " ", "G", "u", "i", "d", "a", "n", "c", "e">>),
            Str(<<"T", "e", "s", "t", "i", "n", "g", " ", "P", "r", "o", "c", "e", "d", "u", "r", "e">>) >>)

\* two guidance markers and two evidence markers
GuidanceEvidenceSheet ==
    Sheet(<<Str(<<"C", "o", "n", "t", "r", "o", "l", " ", "G", "u", "i", "d", "a", "n", "c", "e">>),
            Str(<<"T", "e", "s", "t", "i", "n", "g", " ", "P", "r", "o", "c", "e", "d", "u", "r", "e">>),
            Str(<<"E", "v", "i", "d", "e", "n", "c", "e", " ", "T", "i", "t", "l", "e">>),
            Str(<<"E", "R", "L">>) >>)

\* two main markers that only the joined text holds
SplitSheet ==
    Sheet(<<Str(<<"S", "C", "F">>),
            Str(<<"#">>),
            Str(<<"S", "C", "F">>),
            Str(<<"C", "o", "n", "t", "r", "o", "l">>) >>)

\* one main marker only
NotesSheet ==
    Sheet(<<Str(<<"N", "o", "t", "e", "s">>),
            None,
            Str(<<"C", "C", "F", " ", "I", "D">>) >>)

MaxSheets == 3

SheetNames == <<"Sheet1", "Sheet2", "Sheet3", "Sheet4">>

SheetKinds == {MainSheet, GuidanceSheet, EvidenceSheet, CombinedSheet, GuidanceEvidenceSheet}

\* every workbook of up to MaxSheets of these sheets, and workbooks with a
\* sheet that scores below two, has no cell or cannot be read
Workbooks ==
    UNION {[1..n -> SheetKinds] : n \in 1..MaxSheets}
    \cup { <<SplitSheet, MainSheet>>, <<NotesSheet, MainSheet, GuidanceSheet>>,
           <<Unreadable, CombinedSheet, GuidanceSheet>>, <<Sheet(<<>>), EvidenceSheet>>,
           <<NotesSheet>>, <<Unreadable>> }

\* a name given by the caller: none, a sheet the detection may also pick,
\* or another name
ExplicitNames == {None, Str("Sheet2"), Str("Controls")}

SheetCall(sheets, sheet_main, sheet_guidance, sheet_evidence, auto) ==
    [pc |-> "called", fn |-> "validate", sheets |-> sheets,
     sheet_names |-> SubSeq(SheetNames, 1, Len(sheets)),
     sheet_main |-> sheet_main, sheet_guidance |-> sheet_guidance,
     sheet_evidence |-> sheet_evidence, auto_detect_sheets |-> auto, out |-> None]

\* ExcelAdapter(...).validate()
ValidateWorkbook ==
    /\ cl.pc = "called"
    /\ cl.fn = "validate"
    /\ cl' = [cl EXCEPT !.pc = "done",
                        !.out = ExcelValidate(cl.sheets, cl.sheet_names, cl.sheet_main,
                                              cl.sheet_guidance, cl.sheet_evidence,
                                              cl.auto_detect_sheets)]
    /\ UNCHANGED <<db, nextId, runs, last, del, ss, wz, ad, mp, fv, tx>>

InitSheets ==
    /\ db = NoDb
    /\ nextId = 1
    /\ runs = 0
    /\ last = NoOp
    /\ del = Idle
    /\ ss = NewSession
    /\ wz = NoRun
    /\ ad = NoAdapter
    /\ mp = NoMappings
    /\ fv = NoValidation
    /\ cl \in {SheetCall(w, m, g, e, a) : w \in Workbooks, m \in ExplicitNames,
                g \in ExplicitNames, e \in ExplicitNames, a \in BOOLEAN}
    /\ tx = NoTx

NextSheets == ValidateWorkbook

SpecSheets == InitSheets /\ [][NextSheets]_vars

\* ---------------------------------------------------------------------
\* A single .csv file handed to get_adapter (CSVFolderAdapter)
\* ---------------------------------------------------------------------
\* the largest element of a non-empty set of numbers
MaxOf(S) == CHOOSE i \in S : \A j \in S : j <= i

Slashes(p) == {i \in 1..Len(p) : p[i] = "/"}

\* p.rstrip('/')
RECURSIVE RStripSlash(_)
RStripSlash(p) ==
    IF p # <<>> /\ p[Len(p)] = "/" THEN RStripSlash(SubSeq(p, 1, Len(p) - 1)) ELSE p

\* os.path.dirname(p)
Dirname(p) ==
    IF Slashes(p) = {} THEN <<>>
    ELSE LET head == SubSeq(p, 1, MaxOf(Slashes(p)))
         IN  IF \A i \in 1..Len(head) : head[i] = "/" THEN head ELSE RStripSlash(head)

\* os.path.basename(p)
Basename(p) ==
    IF Slashes(p) = {} THEN p ELSE SubSeq(p, MaxOf(Slashes(p)) + 1, Len(p))

\* os.path.splitext(p)[1]: from the last dot of the last component on,
\* unless only dots come before it in that component
Splitext(p) ==
    LET sepIndex == IF Slashes(p) = {} THEN 0 ELSE MaxOf(Slashes(p))
        dots == {i \in 1..Len(p) : p[i] = "."}
    IN  IF dots = {} \/ MaxOf(dots) <= sepIndex THEN <<>>
        ELSE IF \A i \in (sepIndex + 1)..(MaxOf(dots) - 1) : p[i] = "." THEN <<>>
        ELSE SubSeq(p, MaxOf(dots), Len(p))

\* get_adapter for a directory or a .csv file, with format_hint 'auto' or
\* 'csv': CSVFolderAdapter(folder) with folder = os.path.dirname(source)
\* or '.'; the adapter keeps the folder and nothing else of the path
CsvAdapterOf(source, format_hint, is_dir) ==
    IF is_dir THEN [kind |-> "csv", folder |-> source]
    ELSE IF format_hint = "csv" \/ Lower(Splitext(source)) = CSV
    THEN [kind |-> "csv",
          folder |-> IF Dirname(source) = <<>> THEN <<".">> ELSE Dirname(source)]
    ELSE [kind |-> "other", folder |-> <<>>]

\* [f for f in os.listdir(self.folder) if f.lower().endswith('.csv')]
CsvFiles(listing) == SelectSeq(listing, LAMBDA f : EndsWith(Lower(f.name), CSV))

\* the first file whose lowered name is the first of the patterns that
\* some file has, or None
RECURSIVE PatternFile(_, _)
PatternFile(csv_files, patterns) ==
    IF patterns = <<>> THEN None
    ELSE LET hits == {i \in 1..Len(csv_files) : Lower(csv_files[i].name) = Head(patterns)}
         IN  IF hits # {} THEN Str(csv_files[CHOOSE i \in hits : \A j \in hits : i <= j].name)
             ELSE PatternFile(csv_files, Tail(patterns))

\* any('control' in c or 'ccf' in c for c in cols_lower) on a preview that
\* can be read
LooksLikeControls(f) ==
    /\ f.readable
    /\ \E c \in 1..Len(f.columns) :
           \/ Contains(Lower(f.columns[c]), <<"c", "o", "n", "t", "r", "o", "l">>)
           \/ Contains(Lower(f.columns[c]), <<"c", "c", "f">>)

\* the controls file: by name, else the first file with a control column
ControlsFile(csv_files) ==
    LET named == PatternFile(csv_files, <<<<"c", "o", "n", "t", "r", "o", "l", "s", ".", "c", "s", "v">>, <<"c", "o", "n", "t", "r", "o", "l", ".", "c", "s", "v">>, <<"m", "a", "i", "n", ".", "c", "s", "v">>, <<"c", "c", "f", ".", "c", "s", "v">>>>)
        looks == {i \in 1..Len(csv_files) : LooksLikeControls(csv_files[i])}
    IN  IF named # None THEN named
        ELSE IF looks = {} THEN None
        ELSE Str(csv_files[CHOOSE i \in looks : \A j \in looks : i <= j].name)

\* CSVFolderAdapter.validate on a folder that exists
FolderValidate(listing) ==
    LET csv_files == CsvFiles(listing)
    IN  [controls_file |-> ControlsFile(csv_files),
         guidance_file |-> PatternFile(csv_files, <<<<"g", "u", "i", "d", "a", "n", "c", "e", ".", "c", "s", "v">>, <<"g", "u", "i", "d", "e", ".", "c", "s", "v">>, <<"i", "m", "p", "l", "e", "m", "e", "n", "t", "a", "t", "i", "o", "n", ".", "c", "s", "v">>>>),
         evidence_file |-> PatternFile(csv_files, <<<<"e", "v", "i", "d", "e", "n", "c", "e", ".", "c", "s", "v">>, <<"a", "r", "t", "i", "f", "a", "c", "t", "s", ".", "c", "s", "v">>, <<"a", "u", "d", "i", "t", ".", "c", "s", "v">>>>),
         valid |-> ControlsFile(csv_files) # None]

\* the file of the folder with a name
FileNamed(listing, name) == CHOOSE f \in {listing[i] : i \in 1..Len(listing)} : f.name = name.s

\* CSVFolderAdapter.load: the files whose rows go into the frames.  An
\* evidence or guidance file that cannot be read is logged and skipped; the
\* controls file is read outside any try
FolderLoad(listing, chosen) ==
    LET read(name) == IF name # None /\ FileNamed(listing, name).readable THEN name ELSE None
    IN  IF ~chosen.valid THEN [raised |-> TRUE, controls |-> None, guidance |-> None, evidence |-> None]
        ELSE IF ~FileNamed(listing, chosen.controls_file).readable
        THEN [raised |-> TRUE, controls |-> None, guidance |-> None, evidence |-> None]
        ELSE [raised |-> FALSE, controls |-> chosen.controls_file,
              guidance |-> read(chosen.guidance_file), evidence |-> read(chosen.evidence_file)]

\* --- the inputs -------------------------------------------------------
CsvFile(name, readable, columns) == [name |-> name, readable |-> readable, columns |-> columns]

FolderFiles ==
    { CsvFile(<<"d", "a", "t", "a", ".", "c", "s", "v">>, TRUE, <<<<"C", "o", "n", "t", "r", "o", "l", " ", "I", "D">>, <<"N", "a", "m", "e">>>>),
      CsvFile(<<"C", "o", "n", "t", "r", "o", "l", "s", ".", "C", "S", "V">>, TRUE, <<<<"I", "D">>, <<"N", "a", "m", "e">>>>),
      CsvFile(<<"c", "c", "f", ".", "c", "s", "v">>, FALSE, <<>>),
      CsvFile(<<"o", "l", "d", ".", "c", "s", "v">>, TRUE, <<<<"C", "C", "F", " ", "I", "D">>>>),
      CsvFile(<<"p", "l", "a", "i", "n", ".", "c", "s", "v">>, TRUE, <<<<"N", "a", "m", "e">>, <<"T", "i", "t", "l", "e">>>>),
      CsvFile(<<"E", "v", "i", "d", "e", "n", "c", "e", ".", "c", "s", "v">>, TRUE, <<<<"R", "e", "f", "e", "r", "e", "n", "c", "e">>>>),
      CsvFile(<<"g", "u", "i", "d", "e", ".", "c", "s", "v">>, TRUE, <<<<"C", "o", "n", "t", "r", "o", "l", " ", "I", "D">>, <<"G", "u", "i", "d", "a", "n", "c", "e">>>>),
      CsvFile(<<"n", "o", "t", "e", "s", ".", "t", "x", "t">>, TRUE, <<<<"C", "o", "n", "t", "r", "o", "l">>>>) }

MaxFiles == 3

\* os.listdir gives the files of a folder in any order
Listings ==
    { l \in UNION {[1..n -> FolderFiles] : n \in 1..MaxFiles} :
        \A i, j \in 1..Len(l) : i # j => l[i] # l[j] }

\* the folders a source file is named in: the working directory or d
Folders == { <<>>, <<"d", "/">> }

FolderCall(listing, folder, name, format_hint) ==
    [pc |-> "called", fn |-> "get_adapter", listing |-> listing, source |-> folder \o name,
     format_hint |-> format_hint, adapter |-> NoAdapter,
     chosen |-> None, out |-> None]

\* adapter = get_adapter(source, format_hint)
GetCsvAdapter ==
    /\ cl.pc = "called"
    /\ cl.fn = "get_adapter"
    /\ cl' = [cl EXCEPT !.pc = "constructed",
                        !.adapter = CsvAdapterOf(cl.source, cl.format_hint, FALSE)]
    /\ UNCHANGED <<db, nextId, runs, last, del, ss, wz, ad, mp, fv, tx>>

\* adapter.validate()
ValidateFolder ==
    /\ cl.pc = "constructed"
    /\ cl.fn = "get_adapter"
    /\ cl.adapter.kind = "csv"
    /\ cl' = [cl EXCEPT !.pc = "validated",
                        !.chosen = FolderValidate(cl.listing)]
    /\ UNCHANGED <<db, nextId, runs, last, del, ss, wz, ad, mp, fv, tx>>

\* adapter.load()
LoadFolder ==
    /\ cl.pc = "validated"
    /\ cl.fn = "get_adapter"
    /\ cl' = [cl EXCEPT !.pc = "loaded", !.out = FolderLoad(cl.listing, cl.chosen)]
    /\ UNCHANGED <<db, nextId, runs, last, del, ss, wz, ad, mp, fv, tx>>

\* the source is a file of the folder; the hint is 'auto' or 'csv'
InitFolder ==
    /\ db = NoDb
    /\ nextId = 1
    /\ runs = 0
    /\ last = NoOp
    /\ del = Idle
    /\ ss = NewSession
    /\ wz = NoRun
    /\ ad = NoAdapter
    /\ mp = NoMappings
    /\ fv = NoValidation
    /\ cl \in UNION { {FolderCall(l, d, l[i].name, h) :
                          d \in Folders, i \in 1..Len(l), h \in {"auto", "csv"}} :
                      l \in Listings }
    /\ tx = NoTx

NextFolder == GetCsvAdapter \/ ValidateFolder \/ LoadFolder

SpecFolder == InitFolder /\ [][NextFolder]_vars

\* ---------------------------------------------------------------------
\* Helpers of the properties
\* ---------------------------------------------------------------------
LinkSet(d) == {d.control_evidence[i] : i \in 1..Len(d.control_evidence)}

\* the evidence ids control c is linked to in store d
LinksOfControl(d, c) == {l.evidence_id : l \in {x \in LinkSet(d) : x.control_id = c.id}}

\* the reference strings a cell cites, as cleaned keys
CitedRefs(artifacts) ==
    {Str(ArtifactRefs(artifacts)[i]) : i \in 1..Len(ArtifactRefs(artifacts))}

\* the last row of frame df whose cleaned key is key (0 when there is none)
LastOccurrence(df, field, key) ==
    LET hits == {i \in 1..Len(df) : clean_text(df[i][field]) = key}
    IN  IF hits = {} THEN 0 ELSE CHOOSE i \in hits : \A j \in hits : j <= i

\* the cleaned non-null keys of a frame
KeysOf(df, field) ==
    {clean_text(df[i][field]) : i \in 1..Len(df)} \ {None}

\* no cell of the frames makes clean_text raise
NoListCell(controls_df, evidence_df) ==
    /\ \A i \in 1..Len(controls_df) :
          ~CleanRaises(controls_df[i].ccf_id) /\ ~CleanRaises(controls_df[i].domain)
          /\ ~CleanRaises(controls_df[i].title)
    /\ \A i \in 1..Len(evidence_df) :
          ~CleanRaises(evidence_df[i].ref_id) /\ ~CleanRaises(evidence_df[i].title)
          /\ ~CleanRaises(evidence_df[i].domain)

\* the stored counters of source sid equal the actual row counts
CountersFresh(d, sid) ==
    \A s \in d.compliance_sources :
        s.id = sid =>
            /\ s.control_count = Cardinality(ControlsOf(d, sid))
            /\ s.evidence_count = Cardinality(EvidenceOf(d, sid))

\* ---------------------------------------------------------------------
\* C1: Running seed_from_dataframes a second time in a row with the same
\* frames and the same source name leaves the same control, evidence and
\* domain rows (same ids, same scalar values) and the same junction rows,
\* in the same numbers, and creates no new domain.
\* ---------------------------------------------------------------------
C1_IdempotentUpsert ==
    (last.op = "seed" /\ last.repeat) =>
        /\ db.controls = last.pre.controls
        /\ db.evidence = last.pre.evidence
        /\ db.domains = last.pre.domains
        /\ LinkSet(db) = LinkSet(last.pre)
        /\ Len(db.control_evidence) = Len(last.pre.control_evidence)

C1_Witness ==
    /\ last.op = "seed" /\ last.repeat /\ last.result = "ok"
    /\ Cardinality(ControlsOf(db, last.sid)) = 2
    /\ EvidenceOf(db, last.sid) # {}
    /\ DomainsOf(db, last.sid) # {}
    /\ Len(db.control_evidence) >= 2

\* ---------------------------------------------------------------------
\* C2: The store never holds two control rows with the same
\* (source_id, ccf_id); after a completed run every key of the controls
\* frame has exactly one row, and that row carries the title, the domain
\* and only evidence links cited by the LAST occurrence of the key in the
\* frame.
\* ---------------------------------------------------------------------
DomainNameOf(d, c) ==
    IF c.domain_id = NULL_ID THEN None
    ELSE (CHOOSE x \in d.domains : x.id = c.domain_id).name

NonEmptyKey(key) == key.k = "str" /\ key.s # <<>>

C3_KeyDrop ==
    /\ \A c \in db.controls : NonEmptyKey(c.ccf_id)
    /\ \A e \in db.evidence : NonEmptyKey(e.ref_id)
    /\ (last.op = "seed" /\ NoListCell(last.controls_df, last.evidence_df)) =>
          /\ last.result # "raised"
          /\ \A key \in KeysOf(last.evidence_df, "ref_id") :
                \E e \in EvidenceOf(db, last.sid) : e.ref_id = key
          /\ \A key \in KeysOf(last.controls_df, "ccf_id") :
                \E c \in ControlsOf(db, last.sid) : c.ccf_id = key

C3_Witness ==
    /\ last.op = "seed" /\ last.result = "ok"
    /\ last.controls_df = <<RowNull, RowK>>
    /\ last.evidence_df = <<EvNull, EvE2>>
    /\ \E c \in ControlsOf(db, last.sid) : c.ccf_id = Str(<<"k">>)
    /\ \E e \in EvidenceOf(db, last.sid) : e.ref_id = Str(<<"e">>)

ForeignKeysHold(w) ==
    /\ \A l \in LinkSet(w) :
          /\ \E c \in w.controls : c.id = l.control_id
          /\ \E e \in w.evidence : e.id = l.evidence_id
    /\ \A c \in w.controls :
          /\ c.domain_id = NULL_ID \/ \E x \in w.domains : x.id = c.domain_id
          /\ \E s \in w.compliance_sources : s.id = c.source_id
    /\ \A e \in w.evidence : \E s \in w.compliance_sources : s.id = e.source_id
    /\ \A x \in w.domains : \E s \in w.compliance_sources : s.id = x.source_id
    /\ \A i \in 1..Len(w.import_history) :
          \E s \in w.compliance_sources : s.id = w.import_history[i].source_id

\* store d without anything source sid owns
WithoutSource(d, sid) ==
    [d EXCEPT
       !.compliance_sources = {s \in @ : s.id # sid},
       !.controls = {c \in @ : c.source_id # sid},
       !.evidence = {e \in @ : e.source_id # sid},
       !.domains = {x \in @ : x.source_id # sid},
       !.import_history = SelectSeq(@, LAMBDA h : h.source_id # sid),
       !.control_evidence =
           SelectSeq(@, LAMBDA l :
               /\ \A c \in d.controls : c.id = l.control_id => c.source_id # sid
               /\ \A e \in d.evidence : e.id = l.evidence_id => e.source_id # sid)]

\* what source sid owns in the view w, per statement of the deletion
OwnedLinks(w, sid) ==
    {l \in LinkSet(w) : \E c \in ControlsOf(w, sid) : c.id = l.control_id}

OwnedHistory(w, sid) ==
    {i \in 1..Len(w.import_history) : w.import_history[i].source_id = sid}

C5_SourceIsolation ==
    /\ del.pc # 0 =>
          /\ ForeignKeysHold(del.conn)
          /\ OwnedLinks(del.conn, del.sid) =
                 IF del.pc > 1 THEN {} ELSE OwnedLinks(db, del.sid)
          /\ ControlsOf(del.conn, del.sid) =
                 IF del.pc > 2 THEN {} ELSE ControlsOf(db, del.sid)
          /\ EvidenceOf(del.conn, del.sid) =
                 IF del.pc > 3 THEN {} ELSE EvidenceOf(db, del.sid)
          /\ DomainsOf(del.conn, del.sid) =
                 IF del.pc > 4 THEN {} ELSE DomainsOf(db, del.sid)
          /\ OwnedHistory(del.conn, del.sid) =
                 IF del.pc > 5 THEN {} ELSE OwnedHistory(db, del.sid)
          /\ (\E s \in del.conn.compliance_sources : s.id = del.sid) <=> del.pc <= 6
    /\ last.op = "delete" => db = WithoutSource(last.pre, last.sid)

\* a source with controls, evidence, domains and links has been deleted
\* while another source keeps its own
C5_Witness ==
    /\ last.op = "delete"
    /\ ControlsOf(last.pre, last.sid) # {}
    /\ EvidenceOf(last.pre, last.sid) # {}
    /\ DomainsOf(last.pre, last.sid) # {}
    /\ OwnedLinks(last.pre, last.sid) # {}
    /\ db.controls # {} /\ db.evidence # {} /\ db.domains # {}
    /\ Len(db.control_evidence) > 0 /\ Len(db.import_history) > 0

\* ---------------------------------------------------------------------
\* C6: When seed_from_dataframes returns without raising, the source's
\* control_count and evidence_count equal the numbers of control and
\* evidence rows of that source, also for an empty or missing controls
\* frame.
\* ---------------------------------------------------------------------
C6_CountersAfterImport ==
    (last.op = "seed" /\ last.result \in {"ok", "early"}) =>
        CountersFresh(db, last.sid)

\* ---------------------------------------------------------------------
\* C7: A seed_from_dataframes call that raises partway leaves the
\* source's counters equal to the actual row counts of the rows committed
\* for that source (given they were equal before the call).
\* ---------------------------------------------------------------------
C7_CountersAfterFailure ==
    (last.op = "seed" /\ last.result = "raised" /\ last.pre.schema
        /\ CountersFresh(last.pre, last.sid)) =>
        CountersFresh(db, last.sid)

\* ---------------------------------------------------------------------
\* C8: Every seed_from_dataframes call that returns without raising
\* appends exactly one import_history row for its source; a call that
\* raises in either pass appends none; no call changes or removes an
\* existing history row.
\* ---------------------------------------------------------------------
C8_HistoryAppendOnly ==
    last.op = "seed" =>
        LET before == last.pre.import_history
            after  == db.import_history
        IN  /\ Len(after) >= Len(before)
            /\ SubSeq(after, 1, Len(before)) = before
            /\ last.result = "raised" => after = before
            /\ last.result \in {"ok", "early"} =>
                  /\ Len(after) = Len(before) + 1
                  /\ after[Len(after)].source_id = last.sid

\* ---------------------------------------------------------------------
\* C9: Whenever the adapter's validate() reports valid = false, run_seed
\* returns success = false with the validation errors and the persisted
\* store is exactly as it was before the call (no schema creation, no file
\* removal, no rows written), for every combination of options.
\* ---------------------------------------------------------------------
C9_ValidationFailureWritesNothing ==
    (last.op = "run_seed" /\ last.validation = "invalid") =>
        /\ ~last.success
        /\ last.errors # <<>>
        /\ db = last.pre

\* C10: the wizard's stage is 'import' after a script run only if the run
\* started in 'import', or started in 'validate', saw a validation report
\* with valid = True and validate-only off; a script run invokes
\* create_schema or seed_from_dataframes only if it started in stage
\* 'import', and a run that started in 'upload' or 'validate' leaves the
\* store as it found it.
C10_ImportOnlyAfterValidation ==
    /\ ss.import_stage = "import" =>
          \/ wz.from = "import"
          \/ /\ wz.from = "validate"
             /\ wz.valid = "valid"
             /\ ~ss.validate_only
             /\ ss.controls_df.set
    /\ (wz.created \/ wz.seeded) => wz.from = "import"
    /\ wz.from \in {"upload", "validate"} => db = wz.pre

\* an import ran from stage 'import' and stored controls
C10_Witness ==
    /\ wz.from = "import"
    /\ wz.seeded
    /\ ControlsOf(db, 1) # {}
    /\ ControlsOf(wz.pre, 1) = {}

\* ---------------------------------------------------------------------
\* C11: When the import stage completes successfully the wizard's stored
\* stage is 'done' after that script run; a script run that starts in
\* 'done' without a button press leaves it 'done', and 'Import Another
\* File' brings the wizard back to 'upload'.
\* ---------------------------------------------------------------------
C11_StaysDone ==
    /\ (wz.from = "import" /\ wz.result \in {"ok", "early"}
           /\ wz.event # "reset_session") =>
          ss.import_stage = "done"
    /\ (wz.from = "done" /\ wz.event = "none") => ss.import_stage = "done"
    /\ (wz.from = "done" /\ wz.event = "import_another") =>
          InitSession(ss).import_stage = "upload"

\* ---------------------------------------------------------------------
\* C12: For a readable ZIP archive with a member whose name contains '..'
\* or begins with '/', every validate() returns valid = False with the
\* unsafe-path error, and whatever validate() / load() calls are made on
\* the adapter, no temporary directory is ever created and no member is
\* written.
\* ---------------------------------------------------------------------
TraversalArchive(src) ==
    /\ src.kind = "zip" /\ src.exists /\ src.readable
    /\ \E i \in 1..Len(src.members) :
          \/ src.members[i][1] = "/"
          \/ \E j \in 1..(Len(src.members[i]) - 1) :
                src.members[i][j] = "." /\ src.members[i][j + 1] = "."

C12_ZipTraversalRejected ==
    TraversalArchive(ad.src) =>
        /\ ad.out.call = "validate" =>
              /\ ~ad.out.valid
              /\ ad.out.errors = <<"ZIP contains potentially unsafe path">>
        /\ ad.made = 0
        /\ ~ad.temp
        /\ ad.files = {}
        /\ ad.pc = "idle"

\* validate() and then load() twice on an archive with an absolute member
\* behind a harmless one
C12_Witness ==
    /\ TraversalArchive(ad.src)
    /\ Len(ad.src.members) = 2
    /\ ad.calls = MaxCalls
    /\ ad.out.call = "load"
    /\ ad.out.raised # "none"

NoNaturalId(src) ==
    /\ src.exists /\ src.readable /\ src.main /\ ~src.has_id
    /\ src.kind = "zip" =>
          /\ ~TraversalArchive(src)
          /\ ZipChoice(src.members).adapter_type # "none"

C14_MissingIdReportedByValidate ==
    (ad.out.call = "validate" /\ NoNaturalId(ad.src)) =>
        (~ad.out.valid /\ ad.out.errors # <<>>)

\* ---------------------------------------------------------------------
\* C15: load() on a source that is invalid for a fatal cause (missing
\* file or folder, unparseable input, unsafe ZIP member, undeterminable
\* main sheet) raises ValueError carrying the validation errors without
\* reading or extracting, whether or not validate() was called before.
\* ---------------------------------------------------------------------
FatalCause(src) ==
    \/ ~src.exists
    \/ src.kind # "csv" /\ ~src.readable
    \/ TraversalArchive(src)
    \/ src.kind = "excel" /\ ~src.main

C15_LoadRaisesDataError ==
    (ad.out.call = "load" /\ FatalCause(ad.src)) =>
        /\ ad.out.raised = "ValueError"
        /\ ad.out.errors # <<>>
        /\ ~ad.out.read
        /\ ad.made = 0

\* ---------------------------------------------------------------------
\* C16: run_seed never lets an exception out; the result it returns has
\* an empty errors list when success is True and a non-empty one when
\* success is False.
\* ---------------------------------------------------------------------
C16_ResultErrorsMatchSuccess ==
    last.op = "run_seed" =>
        /\ ~last.propagated
        /\ last.success => last.errors = <<>>
        /\ ~last.success => last.errors # <<>>

\* the second of two runs failed in load() with an exception that only
\* the `except Exception` clause handles
C16_Witness ==
    /\ last.op = "run_seed"
    /\ runs = 2
    /\ ~last.success
    /\ last.validation = "valid"
    /\ last.errors = <<"Unexpected error: str(e)">>

\* ---------------------------------------------------------------------
\* C17: A control whose adapter-produced mappings is a non-empty map from
\* framework name to an ordered list of references, imported through
\* run_seed or through the wizard's validate and import stages and read
\* back, has the same key set and the same ordered list for each key.
\* ---------------------------------------------------------------------
MappingKeysOf(m) == {m[i].key : i \in 1..Len(m)}

RefsOf(m, key) == m[CHOOSE i \in 1..Len(m) : m[i].key = key].refs

SameMapping(a, b) ==
    /\ MappingKeysOf(a) = MappingKeysOf(b)
    /\ \A key \in MappingKeysOf(a) : RefsOf(a, key) = RefsOf(b, key)

C17_MappingsRoundTrip ==
    (mp.pc = "read" /\ mp.mappings # <<>>) =>
        (mp.read.ok /\ SameMapping(mp.read.v, mp.mappings))

\* ---------------------------------------------------------------------
\* C18: In every reachable state the store holds at most one
\* control_evidence row per (control_id, evidence_id), also after a
\* control cited the same reference several times and after the same
\* control id occurred several times in one frame.
\* ---------------------------------------------------------------------
OneRowPerPair(links) ==
    \A i, j \in 1..Len(links) :
        (/\ links[i].control_id = links[j].control_id
         /\ links[i].evidence_id = links[j].evidence_id) => i = j

C18_OneLinkPerPair ==
    /\ OneRowPerPair(db.control_evidence)
    /\ OneRowPerPair(del.conn.control_evidence)

\* the frame held control "c" twice, the second row citing "f; f", and
\* the control is linked to "f"
C18_Witness ==
    /\ last.op = "seed" /\ last.result = "ok"
    /\ last.controls_df = <<RowC, RowC2>>
    /\ last.evidence_df = <<EvE, EvF>>
    /\ \E c \in ControlsOf(db, last.sid) :
          /\ c.ccf_id = Str(<<"c">>)
          /\ \E e \in EvidenceOf(db, last.sid) :
                /\ e.ref_id = Str(<<"f">>)
                /\ \E i \in 1..Len(db.control_evidence) :
                      /\ db.control_evidence[i].control_id = c.id
                      /\ db.control_evidence[i].evidence_id = e.id

\* ---------------------------------------------------------------------
\* C19: The store never holds two compliance_sources rows with one name.
\* After a seed run there is exactly one row with the run's name; if the
\* name existed before, that row keeps its id, name and color; if not,
\* its color is palette[n mod 10], n being the number of sources in the
\* store when it was created.  The other sources are left as they were.
\* ---------------------------------------------------------------------
C19_SourceByExactName ==
    /\ \A s1, s2 \in db.compliance_sources :
          (s1.name = s2.name \/ s1.id = s2.id) => s1 = s2
    /\ (last.op = "seed" /\ last.pre.schema) =>
          LET before == SourceByName(last.pre, last.name)
              after  == SourceByName(db, last.name)
              n      == Cardinality(last.pre.compliance_sources)
          IN  /\ Cardinality(after) = 1
              /\ \A a \in after :
                    /\ a.id = last.sid
                    /\ \A b \in before :
                          a.id = b.id /\ a.name = b.name /\ a.color = b.color
                    /\ before = {} => a.color = SOURCE_COLORS[(n % 10) + 1]
              /\ \A s \in last.pre.compliance_sources :
                    s.name # last.name => s \in db.compliance_sources

\* the eleventh source of a store that holds ten gets the first color
C19_Witness ==
    /\ last.op = "seed"
    /\ Cardinality(last.pre.compliance_sources) = 10
    /\ SourceByName(last.pre, last.name) = {}
    /\ \E a \in SourceByName(db, last.name) : a.color = "#667eea"

\* ---------------------------------------------------------------------
\* C20: full_validation returns a report, and the report's valid flag is
\* False exactly when the controls frame is missing or empty or has no
\* ccf_id column, or the evidence frame is not empty and has no ref_id
\* column; null ids, duplicate ids, missing titles, unusual id characters,
\* malformed mappings and references missing from the evidence set only
\* add warnings and info.
\* ---------------------------------------------------------------------
FatalFrames(controls_df, evidence_df) ==
    \/ controls_df.none
    \/ controls_df.rows = <<>> \/ controls_df.columns = {}
    \/ "ccf_id" \notin controls_df.columns
    \/ /\ ~evidence_df.none
       /\ evidence_df.rows # <<>> /\ evidence_df.columns # {}
       /\ "ref_id" \notin evidence_df.columns

C20_ValidIffNoFatal ==
    fv.pc = "done" =>
        /\ fv.out.raised = "none"
        /\ fv.out.valid <=> ~FatalFrames(fv.controls_df, fv.evidence_df)

\* ---------------------------------------------------------------------
\* C21: detect_header_row returns the smallest row index among the first
\* min(15, number of preview rows) rows in which at least
\* max(2, markerCount - 2) of the markers occur, whatever their case, in
\* the cleaned text of some cell, and 0 when there is no such row.
\* ---------------------------------------------------------------------
\* the markers of the list that occur in row number i (from 0)
MarkersIn(df_preview, markers, i) ==
    {j \in 1..Len(markers) :
        \E c \in 1..Len(df_preview[i + 1]) :
            Contains(RowCell(df_preview[i + 1][c]), Lower(markers[j]))}

HeaderRows(df_preview, markers) ==
    {i \in 0..(Min(15, Len(df_preview)) - 1) :
        Cardinality(MarkersIn(df_preview, markers, i)) >= Max(2, Len(markers) - 2)}

C21_FirstQualifyingRow ==
    (cl.pc = "done" /\ cl.fn = "detect_header_row") =>
        LET rows == HeaderRows(cl.df_preview, cl.markers)
        IN  IF rows = {} THEN cl.out = 0
            ELSE cl.out \in rows /\ \A i \in rows : cl.out <= i

\* five markers, a blank row 0 and four of the markers in row 2
C21_Witness ==
    /\ cl.pc = "done"
    /\ cl.fn = "detect_header_row"
    /\ Len(cl.markers) = 5
    /\ cl.df_preview = <<BlankRow, TitleRow, FourRow>>
    /\ Cardinality(MarkersIn(cl.df_preview, cl.markers, 2)) = 4
    /\ cl.out = 2

\* ---------------------------------------------------------------------
\* C22: two seed_from_dataframes runs for distinct source names on one
\* store, interleaved in any order, both complete and leave for each
\* source the controls, evidence, domains, junction rows and counters
\* that running them one after the other leaves.
\* ---------------------------------------------------------------------
\* what the store holds for the source of that name, row ids aside
ContentOf(d, name) ==
    LET sids == {s.id : s \in SourceByName(d, name)}
        ctl == {c \in d.controls : c.source_id \in sids}
        evs == {e \in d.evidence : e.source_id \in sids}
    IN  [controls |-> {<<c.ccf_id, c.title, DomainNameOf(d, c)>> : c \in ctl},
         evidence |-> {<<e.ref_id, e.title, e.domain>> : e \in evs},
         domains  |-> {x.name : x \in {y \in d.domains : y.source_id \in sids}},
         links    |-> {<<q[1].ccf_id, q[2].ref_id>> : q \in
                          {r \in ctl \X d.evidence :
                              \E l \in LinkSet(d) : l.control_id = r[1].id
                                                    /\ l.evidence_id = r[2].id}},
         nlinks   |-> Cardinality({i \in 1..Len(d.control_evidence) :
                          d.control_evidence[i].control_id \in {c.id : c \in ctl}}),
         counters |-> {<<s.control_count, s.evidence_count>> :
                          s \in SourceByName(d, name)}]

\* the store after run a and then run b, each from start to end
OneAfterTheOther(a, b) ==
    LET first == seed_from_dataframes(tx.pre, tx.pren, a.name, a.controls_df, a.evidence_df)
    IN  seed_from_dataframes(first.db, first.n, b.name, b.controls_df, b.evidence_df).db

SameAsSequential ==
    \E o \in {<<1, 2>>, <<2, 1>>} :
        \A k \in {1, 2} :
            ContentOf(db, tx.p[k].name) =
                ContentOf(OneAfterTheOther(tx.p[o[1]], tx.p[o[2]]), tx.p[k].name)

BothEnded == tx.pc = "run" /\ \A k \in {1, 2} : tx.p[k].at \in {"done", "failed"}

C22_InterleavedRunsComplete ==
    BothEnded => /\ \A k \in {1, 2} : tx.p[k].at = "done"
                 /\ SameAsSequential

\* whenever both runs do complete, the store is as after sequential runs
TxCompletedAgree ==
    (BothEnded /\ \A k \in {1, 2} : tx.p[k].at = "done") => SameAsSequential

\* ---------------------------------------------------------------------
\* C23: the evidence lookup of the controls pass covers every evidence
\* row persisted under the run's source, whatever the evidence frame of
\* the run (an empty one included): after a completed run every control
\* of the frame is linked to each persisted evidence row of its source
\* that its artifacts cite.
\* ---------------------------------------------------------------------
C23_LookupCoversPersisted ==
    (last.op = "seed" /\ last.result = "ok") =>
        \A c \in ControlsOf(db, last.sid) :
            c.ccf_id \in KeysOf(last.controls_df, "ccf_id") =>
                LET row == last.controls_df[
                               LastOccurrence(last.controls_df, "ccf_id", c.ccf_id)]
                IN  \A e \in EvidenceOf(db, last.sid) :
                        e.ref_id \in CitedRefs(row.artifacts)
                            => e.id \in LinksOfControl(db, c)

\* the same for the runs that supply evidence rows
LookupCoversAfterEvidencePass ==
    (last.op = "seed" /\ last.result = "ok" /\ ~FrameEmpty(last.evidence_df))
        => C23_LookupCoversPersisted

\* ---------------------------------------------------------------------
\* C25: for a canonical field without an exact alias match, a column
\* whose name contains, or is contained in, any alias of the field is
\* mapped to the field (the similarity with the first alias is tried only
\* when no alias matches by containment), and a column that matches no
\* alias by any step is absent from the result.
\* ---------------------------------------------------------------------
ProfileOf(mapper, mapping_type) ==
    IF mapping_type = "controls" THEN mapper.control_mappings ELSE mapper.evidence_mappings

\* the columns that contain, or are contained in, some alias of the list
ContainmentColumns(df_columns, alternatives) ==
    {df_columns[i] : i \in {j \in 1..Len(df_columns) :
        \E a \in 1..Len(alternatives) :
            \/ Contains(FuzzyKey(df_columns[j]), FuzzyKey(alternatives[a]))
            \/ Contains(FuzzyKey(alternatives[a]), FuzzyKey(df_columns[j]))}}

\* the column matches the list by one of the three steps
MatchesByAnyStep(col, alternatives) ==
    \/ \E a \in 1..Len(alternatives) : ColumnKey(col) = LowerAll(alternatives[a])
    \/ col \in ContainmentColumns(<<col>>, alternatives)
    \/ Greater(Ratio(FuzzyKey(alternatives[1]), FuzzyKey(col)), Fraction(3, 5))

C25_ContainmentWithAnyAlias ==
    (cl.pc = "done" /\ cl.fn = "map_columns") =>
        LET mappings == ProfileOf(ColumnMapper(cl.custom), cl.mapping_type)
        IN  /\ \A f \in DOMAIN mappings :
                  (/\ FirstExact(cl.df_columns, mappings[f]) = 0
                   /\ ContainmentColumns(cl.df_columns, mappings[f]) # {})
                      => /\ f \in DOMAIN cl.out
                         /\ cl.out[f] \in ContainmentColumns(cl.df_columns, mappings[f])
            /\ \A f \in DOMAIN cl.out : MatchesByAnyStep(cl.out[f], mappings[f])

\* the spec's example: 'Control Identification Number' is not mapped to ccf_id
IdentificationNumberUnmapped ==
    (/\ cl.pc = "done" /\ cl.fn = "map_columns" /\ cl.mapping_type = "controls"
     /\ cl.df_columns = <<ColIdentificationNumber>>)
        => "ccf_id" \notin DOMAIN cl.out

\* ---------------------------------------------------------------------
\* C24: loading a source through the ZIP adapter with custom mappings M
\* gives the same column mapping and the same canonical frames as loading
\* the extracted inner file directly with the same M.
\* ---------------------------------------------------------------------
C24_ZipKeepsCustomMappings ==
    (cl.pc = "called" /\ cl.fn = "load" /\ cl.direct # NotLoaded /\ cl.zip # NotLoaded)
        => cl.zip.frames = cl.direct.frames

\* without custom mappings the two ways agree
ZipAgreesWithoutCustom ==
    (/\ cl.pc = "called" /\ cl.fn = "load" /\ cl.direct # NotLoaded
     /\ cl.zip # NotLoaded /\ cl.custom = NoCustom)
        => cl.zip.frames = cl.direct.frames

\* the name of the first of the sheets at the positions in q, or None
FirstSheet(q) ==
    IF q = {} THEN None
    ELSE Str(cl.sheet_names[CHOOSE i \in q : \A j \in q : i <= j])

\* the positions of the readable sheets that score at least 2 for a role
MainAt == {i \in 1..Len(cl.sheets) : cl.sheets[i].readable /\ Scores(cl.sheets[i]).main >= 2}

GuidanceAt ==
    {i \in 1..Len(cl.sheets) : cl.sheets[i].readable /\ Scores(cl.sheets[i]).guidance >= 2}

EvidenceAt ==
    {i \in 1..Len(cl.sheets) : cl.sheets[i].readable /\ Scores(cl.sheets[i]).evidence >= 2}

ExplicitKept ==
    /\ cl.sheet_main # None => cl.out.sheet_main = cl.sheet_main
    /\ cl.sheet_guidance # None => cl.out.sheet_guidance = cl.sheet_guidance
    /\ cl.sheet_evidence # None => cl.out.sheet_evidence = cl.sheet_evidence

SheetsDone == cl.pc = "done" /\ cl.fn = "validate"

\* C26: sheet-role detection is first-match-wins per role: 'main' is the
\* first sheet in workbook order whose main-marker score is at least 2,
\* 'guidance' the first sheet whose guidance-marker score is at least 2 and
\* 'evidence' the first sheet whose evidence-marker score is at least 2;
\* later qualifying sheets are ignored, and a sheet name the caller gave
\* for a role is never replaced by a detected one.
C26_FirstSheetPerRole ==
    SheetsDone =>
        /\ cl.auto_detect_sheets =>
            /\ cl.out.detected.main = FirstSheet(MainAt)
            /\ cl.out.detected.guidance = FirstSheet(GuidanceAt)
            /\ cl.out.detected.evidence = FirstSheet(EvidenceAt)
        /\ ExplicitKept

\* C26 as amended: a sheet takes one role only. 'main' is the first sheet
\* whose main-marker score is at least 2, 'guidance' the first sheet whose
\* guidance-marker score is at least 2 and that did not become 'main',
\* 'evidence' the first sheet whose evidence-marker score is at least 2 and
\* that became neither 'main' nor 'guidance'; later qualifying sheets are
\* ignored, and a sheet name the caller gave is never replaced.
C26_FirstFreeSheetPerRole ==
    SheetsDone =>
        /\ cl.auto_detect_sheets =>
            /\ cl.out.detected.main = FirstSheet(MainAt)
            /\ cl.out.detected.guidance =
                   FirstSheet({i \in GuidanceAt : Str(cl.sheet_names[i]) # cl.out.detected.main})
            /\ cl.out.detected.evidence =
                   FirstSheet({i \in EvidenceAt :
                       Str(cl.sheet_names[i]) \notin {cl.out.detected.main, cl.out.detected.guidance}})
        /\ ExplicitKept

\* a workbook whose first sheet qualifies for two roles and takes one, a
\* later sheet taking the other, while the caller's main sheet is kept
C26_Witness ==
    /\ SheetsDone
    /\ cl.auto_detect_sheets
    /\ cl.sheets[1] = CombinedSheet
    /\ Len(cl.sheets) = 3
    /\ cl.sheets[3] = GuidanceSheet
    /\ cl.out.detected.main = Str("Sheet1")
    /\ cl.out.detected.guidance = Str("Sheet3")
    /\ cl.sheet_main = Str("Controls")
    /\ cl.out.sheet_main = Str("Controls")

\* the last script run was a click on 'Start Over' above the stages or on
\* 'Import Another File', which every run outside stage 'upload' offers,
\* or a click on 'Cancel' or on a 'Start Over' of a stage that offered it
ResetRun ==
    \/ wz.event \in {"start_over_top", "import_another"} /\ wz.from \notin {"none", "upload"}
    \/ wz.event \in {"start_over", "cancel"} /\ ss.import_stage = "absent"

\* C27: wizard state is cleared on every explicit reset or cancel: after
\* 'Start Over', 'Cancel' or 'Import Another File' the stage is 'upload' and
\* no value of the previous import attempt (temp path, frames, validation
\* result, source identity, force-recreate and validate-only options) has
\* a part in the next import; the store is force-recreated during an import
\* only if the user ticked force-recreate for that same import.
C27_ResetClearsWizard ==
    /\ ResetRun =>
        /\ InitSession(ss).import_stage = "upload"
        /\ ~ss.temp_path
        /\ ss.controls_df = NoFrame /\ ss.evidence_df = NoFrame
        /\ ss.validation_result = "absent"
        /\ ss.source_name = "absent"
    /\ (wz.seeded /\ wz.created) => wz.chosen

\* the call was given a .csv file and the adapter has chosen its files
SingleCsvChosen ==
    /\ cl.fn = "get_adapter"
    /\ cl.pc \in {"validated", "loaded"}
    /\ Lower(Splitext(cl.source)) = CSV

\* C28: when the source is a path to a single .csv file, the adapter that
\* get_adapter returns takes its controls from that file, and takes no
\* controls, guidance or evidence rows from another CSV file of the same
\* directory.
C28_SingleCsvOnly ==
    SingleCsvChosen =>
        /\ cl.chosen.controls_file \in {None, Str(Basename(cl.source))}
        /\ cl.chosen.guidance_file \in {None, Str(Basename(cl.source))}
        /\ cl.chosen.evidence_file \in {None, Str(Basename(cl.source))}
        /\ (cl.pc = "loaded" /\ ~cl.out.raised) => cl.out.controls = Str(Basename(cl.source))

\* the rows and counters of every source but sid
RowsOfOthers(d, sid) ==
    LET w == WithoutSource(d, sid)
    IN  [compliance_sources |-> w.compliance_sources, controls |-> w.controls,
         evidence |-> w.evidence, domains |-> w.domains,
         control_evidence |-> w.control_evidence, import_history |-> w.import_history]

\* C29: seeding is confined to its own source: a seed_from_dataframes run
\* for source A inserts, updates and deletes no control, evidence, domain,
\* junction or history row of another source and leaves the other sources'
\* counters alone, also when A's frames use ccf_id, ref_id or domain names
\* that exist under another source: the same natural id under two sources
\* gives two rows, one for each.
C29_SeedConfinedToSource ==
    last.op = "seed" =>
        /\ RowsOfOthers(db, last.sid) = RowsOfOthers(last.pre, last.sid)
        /\ last.result = "ok" =>
              \A key \in KeysOf(last.controls_df, "ccf_id") :
                  \E c \in ControlsOf(db, last.sid) :
                      /\ c.ccf_id = key
                      /\ \A b \in db.controls : b.id = c.id => b = c

\* a completed run for one source whose control id, evidence reference and
\* domain name another source has too, with other values, links and history
C29_Witness ==
    /\ last.op = "seed" /\ last.result = "ok"
    /\ \E c \in ControlsOf(db, last.sid), b \in last.pre.controls :
          /\ b.source_id # last.sid
          /\ b.ccf_id = c.ccf_id
          /\ b.title # c.title
          /\ b \in db.controls
          /\ LinksOfControl(db, b) # {}
    /\ \E x \in DomainsOf(db, last.sid), y \in last.pre.domains :
          y.source_id # last.sid /\ y.name = x.name /\ y.id # x.id
    /\ \E e \in EvidenceOf(db, last.sid), f \in last.pre.evidence :
          f.source_id # last.sid /\ f.ref_id = e.ref_id
    /\ \E i \in 1..Len(last.pre.import_history) :
          last.pre.import_history[i].source_id # last.sid

\* C30: after any sequence of seed and delete_compliance_source operations
\* every control_evidence row references an existing control and an
\* existing evidence row of one and the same source, and every non-null
\* controls.domain_id references an existing domain row of the control's
\* own source.
C30_ReferencesWithinSource ==
    /\ \A l \in LinkSet(db) :
          \E c \in db.controls, e \in db.evidence :
              c.id = l.control_id /\ e.id = l.evidence_id /\ c.source_id = e.source_id
    /\ \A c \in db.controls :
          c.domain_id # NULL_ID =>
              \E x \in db.domains : x.id = c.domain_id /\ x.source_id = c.source_id

\* one source was deleted after two were seeded with the same ids; the
\* other keeps its links and a control with a domain
C30_Witness ==
    /\ last.op = "delete"
    /\ LinkSet(last.pre) # LinkSet(db)
    /\ LinkSet(db) # {}
    /\ \E c \in db.controls : c.domain_id # NULL_ID
    /\ \E c \in db.controls, b \in last.pre.controls :
          b.source_id = last.sid /\ b.ccf_id = c.ccf_id

====
